---- MODULE Spec2Model ----
(***************************************************************************)
(* Format negotiation of libavfilter/formats.c: shared, reference-counted  *)
(* format lists (AVFilterFormats, AVFilterChannelLayouts), the owner       *)
(* slots (the pointer fields of a link's incfg and outcfg) that point at    *)
(* them, and the merge functions that intersect two lists and repoint the  *)
(* owners of both to the surviving list.                                   *)
(***************************************************************************)
EXTENDS Integers, Sequences, FiniteSets, TLC

\* ------------------------------------------------------------------ bounds
\* longest literal list handed to a constructor
MaxLen == 2
\* number of owner slots (link->incfg.X / link->outcfg.X locations)
NSlots == 3
\* number of list instances that can be allocated at the same time
MaxSets == 2

\* ------------------------------------------------------------ basic values
NULL == 0
AVERROR_ENOMEM == 0 - 12
AVMEDIA_TYPE_UNKNOWN == "unknown"
AVMEDIA_TYPE_VIDEO == "video"
AVMEDIA_TYPE_AUDIO == "audio"

Slots == 1..NSlots
SetIds == 1..MaxSets

\* pixel formats of the catalogue used here, by name
GRAY8 == "gray8"
YUV420P == "yuv420p"
RGB24 == "rgb24"
RGBA == "rgba"
YUVA420P == "yuva420p"
\* end-of-list marker of a literal scalar list
SENTINEL == "-1"
FmtIds == {GRAY8, YUV420P, RGB24, RGBA, YUVA420P}

\* av_pix_fmt_desc_get(): number of components and the alpha flag
PixDesc(fmt) ==
    CASE fmt = GRAY8    -> [nb_components |-> 1, alpha |-> FALSE]
      [] fmt = YUV420P  -> [nb_components |-> 3, alpha |-> FALSE]
      [] fmt = RGB24    -> [nb_components |-> 3, alpha |-> FALSE]
      [] fmt = RGBA     -> [nb_components |-> 4, alpha |-> TRUE]
      [] fmt = YUVA420P -> [nb_components |-> 4, alpha |-> TRUE]

\* ------------------------------------------------------- channel layouts
AV_CHANNEL_ORDER_UNSPEC == "unspec"
AV_CHANNEL_ORDER_NATIVE == "native"

\* AVChannelLayout: order, nb_channels and (native order) the channel mask
Layout(order, nb, mask) == [order |-> order, nb_channels |-> nb, mask |-> mask]
MONO == Layout(AV_CHANNEL_ORDER_NATIVE, 1, "FC")
STEREO == Layout(AV_CHANNEL_ORDER_NATIVE, 2, "FL+FR")
STEREO_DOWNMIX == Layout(AV_CHANNEL_ORDER_NATIVE, 2, "DL+DR")
\* a layout after av_channel_layout_uninit(): all fields zero
ZeroLayout == Layout(AV_CHANNEL_ORDER_UNSPEC, 0, "")
KnownLayouts == {MONO, STEREO, STEREO_DOWNMIX}

\* FF_COUNT2LAYOUT(c): the generic entry "any layout with c channels"
FF_COUNT2LAYOUT(c) == Layout(AV_CHANNEL_ORDER_UNSPEC, c, "")
\* FF_LAYOUT2COUNT(l): the count of a generic entry, 0 for any other layout
FF_LAYOUT2COUNT(l) == IF l.order = AV_CHANNEL_ORDER_UNSPEC THEN l.nb_channels ELSE 0
KNOWN(l) == FF_LAYOUT2COUNT(l) = 0

GenericLayouts == {FF_COUNT2LAYOUT(l.nb_channels) : l \in KnownLayouts}
LayoutIds == KnownLayouts \cup GenericLayouts

\* av_channel_layout_compare(): 0 when the two layouts are equal, 1 otherwise
av_channel_layout_compare(a, b) ==
    IF a.nb_channels # b.nb_channels THEN 1
    ELSE IF a.order = AV_CHANNEL_ORDER_UNSPEC \/ b.order = AV_CHANNEL_ORDER_UNSPEC
         THEN (IF a.order # b.order THEN 1 ELSE 0)
         ELSE (IF a.mask # b.mask THEN 1 ELSE 0)

\* av_channel_layout_check(): a layout is valid when it has channels
av_channel_layout_check(l) == l.nb_channels > 0

\* ---------------------------------------------------------------- state
VARIABLES
    kind,   \* the C type of the lists and slots of this run: SCALAR for
            \* AVFilterFormats, LAYOUTS for AVFilterChannelLayouts
    heap,   \* instance id -> the AVFilterFormats / AVFilterChannelLayouts there
    cfg,    \* owner slot -> the instance it points to, or NULL
    last    \* the last call: its name, its return value (for a constructor 1
            \* when it returned a list, 0 when NULL) and its arguments: for a
            \* merger or probe the two lists; for unref and changeref a is the
            \* list the slot held, and b the slot a changeref moved it to; for
            \* a broadcast a is the list and b the refcount it had before;
            \* heap and cfg are the lists and slots as the call found them
VARIABLES
    buf,    \* the BufferSinkContext of the buffer sink: its peeked_frame
    inlink, \* the sink's input link: the frames queued on it, its end
            \* status, and the counts of frames that entered and left it
    avci    \* the encoder: the AVCodecInternal flags and buffers, and the
            \* frame_number of its AVCodecContext

vars == <<kind, heap, cfg, last, buf, inlink, avci>>

SCALAR == "AVFilterFormats"
LAYOUTS == "AVFilterChannelLayouts"

\* an instance id that holds no allocation
FreeRec == [live |-> FALSE, fmts |-> <<>>, all_layouts |-> 0, all_counts |-> 0,
            refcount |-> 0, refs |-> <<>>]

\* av_mallocz(sizeof(*formats)) followed by the assignment of the entries
NewRec(list, allLayouts, allCounts) ==
    [live |-> TRUE, fmts |-> list, all_layouts |-> allLayouts,
     all_counts |-> allCounts, refcount |-> 0, refs |-> <<>>]

Live == {f \in SetIds : heap[f].live}
FreeIds == SetIds \ Live
\* the buffer sink before any frame reached it
SinkInit ==
    /\ buf = [peeked_frame |-> NULL]
    /\ inlink = [fifo |-> <<>>, status_in |-> 0, status_out |-> 0,
                 frame_count_in |-> 0, frame_count_out |-> 0]

\* the encoder as avcodec_open2 leaves it: nothing buffered, not draining;
\* cb_type and cap_delay are the callback type and AV_CODEC_CAP_DELAY of its
\* codec
EncoderInit(cb_type, delay) ==
    avci = [cb_type |-> cb_type, cap_delay |-> delay,
            draining |-> 0, draining_done |-> 0,
            buffer_frame |-> NULL, buffer_pkt |-> NULL, frame_number |-> 0]

\* the address the allocator hands out next
NextId == CHOOSE f \in FreeIds : \A g \in FreeIds : f <= g

\* the record of a call made in the current state
Call(op, ret, a, b) ==
    [op |-> op, ret |-> ret, a |-> a, b |-> b, heap |-> heap, cfg |-> cfg]

Range(s) == {s[i] : i \in 1..Len(s)}

\* all sequences over S of length at most n
RECURSIVE SeqsUpTo(_, _)
SeqsUpTo(S, n) ==
    IF n = 0 THEN {<<>>}
    ELSE LET shorter == SeqsUpTo(S, n - 1)
         IN shorter \cup {Append(s, x) : s \in {t \in shorter : Len(t) = n - 1}, x \in S}

\* the NULL pointer passed in place of a literal array
NoArray == <<>>

Init ==
    /\ kind \in {SCALAR, LAYOUTS}
    /\ heap = [f \in SetIds |-> FreeRec]
    /\ cfg = [s \in Slots |-> NULL]
    /\ last = Call("init", 0, NULL, NULL)
    /\ SinkInit
    /\ EncoderInit("encode", FALSE)

\* ------------------------------------------------------------ constructors
\* the count as it would be if the loop ran up to the last end marker
CountUntilLast(fmts, marker, count) ==
    (CHOOSE i \in 1..Len(fmts) :
        fmts[i] = marker /\ \A j \in (i + 1)..Len(fmts) : fmts[j] # marker) - 1

\* MAKE_FORMAT_LIST: count the entries before the first end marker
RECURSIVE CountUntil(_, _, _)
CountUntil(fmts, marker, count) ==
    IF fmts[count + 1] = marker THEN count ELSE CountUntil(fmts, marker, count + 1)

\* ff_make_format_list(fmts): a new list without owners
ff_make_format_list(fmts, oom) ==
    /\ kind = SCALAR
    /\ UNCHANGED <<kind, buf, inlink, avci>>
    /\ FreeIds # {}
    /\ LET count == IF fmts = NoArray THEN 0 ELSE CountUntil(fmts, SENTINEL, 0)
           formats == [i \in 1..count |-> fmts[i]]
       IN IF oom
          THEN /\ UNCHANGED <<heap, cfg>>
               /\ last' = Call("ff_make_format_list", 0, NULL, Len(fmts))
          ELSE /\ heap' = [heap EXCEPT ![NextId] = NewRec(formats, 0, 0)]
               /\ last' = Call("ff_make_format_list", 1, NextId, Len(fmts))
               /\ UNCHANGED cfg

\* ff_all_samplerates(): the empty list, meaning "any sample rate"
ff_all_samplerates ==
    /\ kind = SCALAR
    /\ UNCHANGED <<kind, buf, inlink, avci>>
    /\ FreeIds # {}
    /\ heap' = [heap EXCEPT ![NextId] = NewRec(<<>>, 0, 0)]
    /\ last' = Call("ff_all_samplerates", 1, NextId, NULL)
    /\ UNCHANGED cfg

\* ff_make_channel_layout_list(fmts): the entries before the first layout
\* with nb_channels = 0
RECURSIVE CountLayouts(_, _)
CountLayouts(fmts, count) ==
    IF fmts[count + 1].nb_channels = 0 THEN count ELSE CountLayouts(fmts, count + 1)

ff_make_channel_layout_list(fmts, oom) ==
    /\ kind = LAYOUTS
    /\ UNCHANGED <<kind, buf, inlink, avci>>
    /\ FreeIds # {}
    /\ LET count == IF fmts = NoArray THEN 0 ELSE CountLayouts(fmts, 0)
           channel_layouts == [i \in 1..count |-> fmts[i]]
       IN IF oom
          THEN /\ UNCHANGED <<heap, cfg>>
               /\ last' = Call("ff_make_channel_layout_list", 0, NULL, Len(fmts))
          ELSE /\ heap' = [heap EXCEPT ![NextId] = NewRec(channel_layouts, 0, 0)]
               /\ last' = Call("ff_make_channel_layout_list", 1, NextId, Len(fmts))
               /\ UNCHANGED cfg

\* ff_all_channel_layouts(): "any known layout"
ff_all_channel_layouts ==
    /\ kind = LAYOUTS
    /\ UNCHANGED <<kind, buf, inlink, avci>>
    /\ FreeIds # {}
    /\ heap' = [heap EXCEPT ![NextId] = NewRec(<<>>, 1, 0)]
    /\ last' = Call("ff_all_channel_layouts", 1, NextId, NULL)
    /\ UNCHANGED cfg

\* ff_all_channel_counts as it would be if it set all_counts only
AllChannelCountsOnly ==
    /\ kind = LAYOUTS
    /\ UNCHANGED <<kind, buf, inlink, avci>>
    /\ FreeIds # {}
    /\ heap' = [heap EXCEPT ![NextId] = NewRec(<<>>, 0, 1)]
    /\ last' = Call("ff_all_channel_counts", 1, NextId, NULL)
    /\ UNCHANGED cfg

\* ff_all_channel_counts(): "any channel count"
ff_all_channel_counts ==
    /\ kind = LAYOUTS
    /\ UNCHANGED <<kind, buf, inlink, avci>>
    /\ FreeIds # {}
    /\ heap' = [heap EXCEPT ![NextId] = NewRec(<<>>, 1, 1)]
    /\ last' = Call("ff_all_channel_counts", 1, NextId, NULL)
    /\ UNCHANGED cfg

\* --------------------------------------------------------- owner bookkeeping
\* FIND_REF_INDEX: first position of ref in the owner list, 0 when absent
FindRefIndex(f, ref) ==
    LET hits == {i \in 1..heap[f].refcount : heap[f].refs[i] = ref}
    IN IF hits = {} THEN 0 ELSE CHOOSE i \in hits : \A j \in hits : i <= j

\* the memmove of FORMATS_UNREF: drop position idx of the owner list
RemoveAt(s, idx) == [i \in 1..(Len(s) - 1) |-> IF i < idx THEN s[i] ELSE s[i + 1]]

\* UnrefHeap as it would be if the last owner were moved into the place of
\* the removed one instead of the memmove
UnrefHeapMovesLast(h, f, ref) ==
    LET hits == {i \in 1..h[f].refcount : h[f].refs[i] = ref}
        idx == IF hits = {} THEN 0 ELSE CHOOSE i \in hits : \A j \in hits : i <= j
        n == h[f].refcount
        moved == [i \in 1..(n - 1) |-> IF i = idx THEN h[f].refs[n] ELSE h[f].refs[i]]
        after == IF idx > 0
                 THEN [h[f] EXCEPT !.refs = moved, !.refcount = @ - 1]
                 ELSE h[f]
    IN [h EXCEPT ![f] = IF after.refcount = 0 THEN FreeRec ELSE after]

\* UnrefHeap as it would be if the refcount were not decremented
UnrefHeapKeepsCount(h, f, ref) ==
    LET hits == {i \in 1..h[f].refcount : h[f].refs[i] = ref}
        idx == IF hits = {} THEN 0 ELSE CHOOSE i \in hits : \A j \in hits : i <= j
        after == IF idx > 0 THEN [h[f] EXCEPT !.refs = RemoveAt(@, idx)] ELSE h[f]
    IN [h EXCEPT ![f] = IF after.refcount = 0 THEN FreeRec ELSE after]

\* UnrefHeap as it would be if the list were never freed
UnrefHeapNeverFrees(h, f, ref) ==
    LET hits == {i \in 1..h[f].refcount : h[f].refs[i] = ref}
        idx == IF hits = {} THEN 0 ELSE CHOOSE i \in hits : \A j \in hits : i <= j
        after == IF idx > 0
                 THEN [h[f] EXCEPT !.refs = RemoveAt(@, idx), !.refcount = @ - 1]
                 ELSE h[f]
    IN [h EXCEPT ![f] = after]

\* FORMATS_UNREF applied to the location ref (a slot, or NULL for a local
\* variable of the caller that holds f): the heap afterwards
UnrefHeap(h, f, ref) ==
    LET hits == {i \in 1..h[f].refcount : h[f].refs[i] = ref}
        idx == IF hits = {} THEN 0 ELSE CHOOSE i \in hits : \A j \in hits : i <= j
        after == IF idx > 0
                 THEN [h[f] EXCEPT !.refs = RemoveAt(@, idx), !.refcount = @ - 1]
                 ELSE h[f]
    IN [h EXCEPT ![f] = IF after.refcount = 0 THEN FreeRec ELSE after]

\* FormatsRef as it would be if a failed allocation freed the list whether
\* or not it has owners
FormatsRefOomFrees(f, ref, oom) ==
    /\ UNCHANGED <<kind, buf, inlink, avci>>
    /\ f \in Live \cup {NULL}
    /\ cfg[ref] = NULL
    /\ IF f = NULL
       THEN /\ UNCHANGED <<heap, cfg>>
            /\ last' = Call("ref", AVERROR_ENOMEM, NULL, NULL)
       ELSE IF oom
       THEN /\ heap' = [heap EXCEPT ![f] = FreeRec]
            /\ UNCHANGED cfg
            /\ last' = Call("ref", AVERROR_ENOMEM, f, NULL)
       ELSE /\ heap' = [heap EXCEPT ![f].refs = Append(@, ref),
                                    ![f].refcount = @ + 1]
            /\ cfg' = [cfg EXCEPT ![ref] = f]
            /\ last' = Call("ref", 0, f, NULL)

\* FORMATS_REF: ff_formats_ref(f, ref) / ff_channel_layouts_ref(f, ref)
FormatsRef(f, ref, oom) ==
    /\ UNCHANGED <<kind, buf, inlink, avci>>
    /\ f \in Live \cup {NULL}
    /\ cfg[ref] = NULL
    /\ IF f = NULL
       THEN /\ UNCHANGED <<heap, cfg>>
            /\ last' = Call("ref", AVERROR_ENOMEM, NULL, NULL)
       ELSE IF oom
       THEN /\ heap' = UnrefHeap(heap, f, NULL)
            /\ UNCHANGED cfg
            /\ last' = Call("ref", AVERROR_ENOMEM, f, NULL)
       ELSE /\ heap' = [heap EXCEPT ![f].refs = Append(@, ref),
                                    ![f].refcount = @ + 1]
            /\ cfg' = [cfg EXCEPT ![ref] = f]
            /\ last' = Call("ref", 0, f, NULL)

\* FORMATS_UNREF: ff_formats_unref(ref) / ff_channel_layouts_unref(ref)
FormatsUnref(ref) ==
    /\ UNCHANGED <<kind, buf, inlink, avci>>
    /\ IF cfg[ref] = NULL
       THEN UNCHANGED <<heap, cfg>>
       ELSE /\ heap' = UnrefHeap(heap, cfg[ref], ref)
            /\ cfg' = [cfg EXCEPT ![ref] = NULL]
    /\ last' = Call("unref", 0, cfg[ref], NULL)

\* FormatsChangeref as it would be if the new owner were appended to the
\* owner list and the old one removed from it
ChangerefAppends(oldref, newref, held) ==
    /\ UNCHANGED <<kind, buf, inlink, avci>>
    /\ IF oldref = NULL THEN held \in Live ELSE held = cfg[oldref] /\ held # NULL
    /\ cfg[newref] = NULL
    /\ LET f == held
           idx == FindRefIndex(f, oldref)
       IN /\ IF idx > 0
             THEN /\ heap' = [heap EXCEPT ![f].refs = Append(RemoveAt(@, idx), newref)]
                  /\ cfg' = [cfg EXCEPT ![newref] = f, ![oldref] = NULL]
             ELSE UNCHANGED <<heap, cfg>>
          /\ last' = Call("changeref", 0, f, IF idx > 0 THEN newref ELSE NULL)

\* FORMATS_CHANGEREF: ff_formats_changeref(oldref, newref); oldref is a
\* slot, or NULL for a local variable of the caller that holds the list
\* `held` without being registered as one of its owners
FormatsChangeref(oldref, newref, held) ==
    /\ UNCHANGED <<kind, buf, inlink, avci>>
    /\ IF oldref = NULL THEN held \in Live ELSE held = cfg[oldref] /\ held # NULL
    /\ cfg[newref] = NULL
    /\ LET f == held
           idx == FindRefIndex(f, oldref)
       IN /\ IF idx > 0
             THEN /\ heap' = [heap EXCEPT ![f].refs[idx] = newref]
                  /\ cfg' = [cfg EXCEPT ![newref] = f, ![oldref] = NULL]
             ELSE UNCHANGED <<heap, cfg>>
          /\ last' = Call("changeref", 0, f, IF idx > 0 THEN newref ELSE NULL)

\* ------------------------------------------------------------- broadcast
\* LinkType: the media type of the link a slot belongs to
LinkType(s) == IF s % 2 = 1 THEN AVMEDIA_TYPE_VIDEO ELSE AVMEDIA_TYPE_AUDIO

\* a filter context as the broadcast sees it: ctx->inputs and ctx->outputs,
\* each link given by the slot the broadcast would fill (link->outcfg.X of an
\* input, link->incfg.X of an output), or NULL where no link is attached.
\* The pipeline has a filter with one input and the outputs that follow an
\* unconnected pad, and a sink behind the last slot.
Contexts ==
    {[inputs |-> <<1>>, outputs |-> <<NULL>> \o [i \in 1..(NSlots - 2) |-> i + 1]],
     [inputs |-> <<NSlots>>, outputs |-> <<>>]}

\* Applies as it would be without the test of the link's media type
AppliesAnyType(c, link, media_type) ==
    /\ link # NULL
    /\ c[link] = NULL

\* the test of SET_COMMON_FORMATS that decides whether a slot gets the list
Applies(c, link, media_type) ==
    /\ link # NULL
    /\ c[link] = NULL
    /\ (media_type = AVMEDIA_TYPE_UNKNOWN \/ LinkType(link) = media_type)

\* SetCommonLoop as it would be if a broadcast that reached no slot failed
RECURSIVE SetCommonLoopNeedsTarget(_, _, _, _, _, _, _, _)
SetCommonLoopNeedsTarget(h, c, fmts, links, media_type, i, calls, oomAt) ==
    IF i > Len(links)
    THEN [heap |-> IF h[fmts].refcount = 0 THEN UnrefHeap(h, fmts, NULL) ELSE h,
          cfg |-> c, ret |-> IF calls = 0 THEN AVERROR_ENOMEM ELSE 0]
    ELSE IF ~Applies(c, links[i], media_type)
    THEN SetCommonLoopNeedsTarget(h, c, fmts, links, media_type, i + 1, calls, oomAt)
    ELSE IF calls + 1 = oomAt
    THEN [heap |-> UnrefHeap(h, fmts, NULL), cfg |-> c, ret |-> AVERROR_ENOMEM]
    ELSE SetCommonLoopNeedsTarget([h EXCEPT ![fmts].refs = Append(@, links[i]),
                                            ![fmts].refcount = @ + 1],
                                  [c EXCEPT ![links[i]] = fmts],
                                  fmts, links, media_type, i + 1, calls + 1, oomAt)

\* SetCommonLoop as it would be if ref_fn did not count the owner it adds
RECURSIVE SetCommonLoopNoCount(_, _, _, _, _, _, _, _)
SetCommonLoopNoCount(h, c, fmts, links, media_type, i, calls, oomAt) ==
    IF i > Len(links)
    THEN [heap |-> IF h[fmts].refcount = 0 THEN UnrefHeap(h, fmts, NULL) ELSE h,
          cfg |-> c, ret |-> 0]
    ELSE IF ~Applies(c, links[i], media_type)
    THEN SetCommonLoopNoCount(h, c, fmts, links, media_type, i + 1, calls, oomAt)
    ELSE IF calls + 1 = oomAt
    THEN [heap |-> UnrefHeap(h, fmts, NULL), cfg |-> c, ret |-> AVERROR_ENOMEM]
    ELSE SetCommonLoopNoCount([h EXCEPT ![fmts].refs = Append(@, links[i])],
                              [c EXCEPT ![links[i]] = fmts],
                              fmts, links, media_type, i + 1, calls + 1, oomAt)

\* SetCommonLoop as it would be without the final release of a list that no
\* slot took
RECURSIVE SetCommonLoopNoFree(_, _, _, _, _, _, _, _)
SetCommonLoopNoFree(h, c, fmts, links, media_type, i, calls, oomAt) ==
    IF i > Len(links)
    THEN [heap |-> h, cfg |-> c, ret |-> 0]
    ELSE IF ~Applies(c, links[i], media_type)
    THEN SetCommonLoopNoFree(h, c, fmts, links, media_type, i + 1, calls, oomAt)
    ELSE IF calls + 1 = oomAt
    THEN [heap |-> UnrefHeap(h, fmts, NULL), cfg |-> c, ret |-> AVERROR_ENOMEM]
    ELSE SetCommonLoopNoFree([h EXCEPT ![fmts].refs = Append(@, links[i]),
                                       ![fmts].refcount = @ + 1],
                             [c EXCEPT ![links[i]] = fmts],
                             fmts, links, media_type, i + 1, calls + 1, oomAt)

\* the two loops of SET_COMMON_FORMATS over the slots `links`, from position
\* i on; the oomAt-th call of ref_fn fails (0: none does); calls counts them
RECURSIVE SetCommonLoop(_, _, _, _, _, _, _, _)
SetCommonLoop(h, c, fmts, links, media_type, i, calls, oomAt) ==
    IF i > Len(links)
    THEN [heap |-> IF h[fmts].refcount = 0 THEN UnrefHeap(h, fmts, NULL) ELSE h,
          cfg |-> c, ret |-> 0]
    ELSE IF ~Applies(c, links[i], media_type)
    THEN SetCommonLoop(h, c, fmts, links, media_type, i + 1, calls, oomAt)
    ELSE IF calls + 1 = oomAt
    THEN [heap |-> UnrefHeap(h, fmts, NULL), cfg |-> c, ret |-> AVERROR_ENOMEM]
    ELSE SetCommonLoop([h EXCEPT ![fmts].refs = Append(@, links[i]),
                                 ![fmts].refcount = @ + 1],
                       [c EXCEPT ![links[i]] = fmts],
                       fmts, links, media_type, i + 1, calls + 1, oomAt)

\* SET_COMMON_FORMATS(ctx, fmts, media_type, ref_fn, unref_fn)
SetCommonFormats(op, ctx, fmts, media_type, oomAt) ==
    /\ fmts \in Live \cup {NULL}
    /\ UNCHANGED <<kind, buf, inlink, avci>>
    /\ IF fmts = NULL
       THEN /\ UNCHANGED <<heap, cfg>>
            /\ last' = Call(op, AVERROR_ENOMEM, NULL, NULL)
       ELSE LET r == SetCommonLoop(heap, cfg, fmts, ctx.inputs \o ctx.outputs,
                                   media_type, 1, 0, oomAt)
            IN /\ heap' = r.heap
               /\ cfg' = r.cfg
               /\ last' = Call(op, r.ret, fmts, heap[fmts].refcount)

ff_set_common_formats(ctx, formats, oomAt) ==
    /\ kind = SCALAR
    /\ SetCommonFormats("ff_set_common_formats", ctx, formats, AVMEDIA_TYPE_UNKNOWN, oomAt)

ff_set_common_samplerates(ctx, samplerates, oomAt) ==
    /\ kind = SCALAR
    /\ SetCommonFormats("ff_set_common_samplerates", ctx, samplerates,
                        AVMEDIA_TYPE_AUDIO, oomAt)

ff_set_common_channel_layouts(ctx, channel_layouts, oomAt) ==
    /\ kind = LAYOUTS
    /\ SetCommonFormats("ff_set_common_channel_layouts", ctx, channel_layouts,
                        AVMEDIA_TYPE_AUDIO, oomAt)

\* ------------------------------------------------------------------ merging
\* the owners of instance f: refs[0 .. refcount-1]
Owners(h, f) == SubSeq(h[f].refs, 1, h[f].refcount)

\* MergeRef as it would be if a were left allocated, without owners
MergeRefKeepsDonor(h, c, ret, a) ==
    [heap |-> [h EXCEPT ![ret].refs = Owners(h, ret) \o Owners(h, a),
                        ![ret].refcount = @ + h[a].refcount,
                        ![a].refs = <<>>,
                        ![a].refcount = 0],
     cfg |-> [s \in Slots |-> IF s \in Range(Owners(h, a)) THEN ret ELSE c[s]]]

\* MergeRef as it would be if the owners of a were not repointed
MergeRefNoRepoint(h, c, ret, a) ==
    [heap |-> [h EXCEPT ![ret].refs = Owners(h, ret) \o Owners(h, a),
                        ![ret].refcount = @ + h[a].refcount,
                        ![a] = FreeRec],
     cfg |-> c]

\* MERGE_REF(ret, a): add all refs from a to ret, repoint them, destroy a
MergeRef(h, c, ret, a) ==
    [heap |-> [h EXCEPT ![ret].refs = Owners(h, ret) \o Owners(h, a),
                        ![ret].refcount = @ + h[a].refcount,
                        ![a] = FreeRec],
     cfg |-> [s \in Slots |-> IF s \in Range(Owners(h, a)) THEN ret ELSE c[s]]]

\* CommonFormats as it would be if the loops over a and b were exchanged
CommonFormatsOfB(afmts, bfmts, i) ==
    SelectSeq(bfmts, LAMBDA x : \E j \in i..Len(afmts) : afmts[j] = x)

\* the double loop of MERGE_FORMATS from position i of a on: the entries of a
\* that have an equal entry in b, compacted to the front of a
RECURSIVE CommonFormats(_, _, _)
CommonFormats(afmts, bfmts, i) ==
    IF i > Len(afmts) THEN <<>>
    ELSE IF \E j \in 1..Len(bfmts) : afmts[i] = bfmts[j]
         THEN <<afmts[i]>> \o CommonFormats(afmts, bfmts, i + 1)
         ELSE CommonFormats(afmts, bfmts, i + 1)

\* MergeFormats as it would be if the entries of b that a lacks were added to
\* a instead of the entries of a that b lacks being dropped
MergeFormatsUnion(h, c, a, b, check, empty_allowed, oom) ==
    LET skip == empty_allowed /\ (h[a].fmts = <<>> \/ h[b].fmts = <<>>)
        a1 == IF skip /\ h[a].fmts = <<>> THEN b ELSE a
        b1 == IF skip /\ h[a].fmts = <<>> THEN a ELSE b
        common == CommonFormats(h[a].fmts, h[b].fmts, 1)
        k == Len(common)
        added == SelectSeq(h[b].fmts, LAMBDA x : \A i \in 1..Len(h[a].fmts) : h[a].fmts[i] # x)
        h1 == IF skip THEN h ELSE [h EXCEPT ![a].fmts = h[a].fmts \o added]
    IN IF skip /\ check THEN [heap |-> h, cfg |-> c, ret |-> 1]
       ELSE IF ~skip /\ check
       THEN [heap |-> h, cfg |-> c, ret |-> IF k > 0 THEN 1 ELSE 0]
       ELSE IF ~skip /\ k = 0 THEN [heap |-> h, cfg |-> c, ret |-> 0]
       ELSE IF oom # 0 THEN [heap |-> h1, cfg |-> c, ret |-> AVERROR_ENOMEM]
       ELSE [heap |-> MergeRef(h1, c, a1, b1).heap,
             cfg |-> MergeRef(h1, c, a1, b1).cfg, ret |-> 1]

\* MergeFormats as it would be if a probe refused an empty list
MergeFormatsProbeNoEmpty(h, c, a, b, check, empty_allowed, oom) ==
    LET skip == empty_allowed /\ (h[a].fmts = <<>> \/ h[b].fmts = <<>>)
        a1 == IF skip /\ h[a].fmts = <<>> THEN b ELSE a
        b1 == IF skip /\ h[a].fmts = <<>> THEN a ELSE b
        common == CommonFormats(h[a].fmts, h[b].fmts, 1)
        k == Len(common)
        written == common \o SubSeq(h[a].fmts, k + 1, Len(h[a].fmts))
        h0 == [h EXCEPT ![a].fmts = written]
        h1 == IF skip THEN h ELSE [h EXCEPT ![a].fmts = SubSeq(written, 1, k)]
    IN IF skip /\ check THEN [heap |-> h, cfg |-> c, ret |-> 0]
       ELSE IF ~skip /\ check
       THEN [heap |-> h, cfg |-> c, ret |-> IF k > 0 THEN 1 ELSE 0]
       ELSE IF ~skip /\ k = 0 THEN [heap |-> h0, cfg |-> c, ret |-> 0]
       ELSE IF oom # 0 THEN [heap |-> h1, cfg |-> c, ret |-> AVERROR_ENOMEM]
       ELSE [heap |-> MergeRef(h1, c, a1, b1).heap,
             cfg |-> MergeRef(h1, c, a1, b1).cfg, ret |-> 1]

\* MergeFormats as it would be if `check` returned only after the loops
MergeFormatsCheckLate(h, c, a, b, check, empty_allowed, oom) ==
    LET skip == empty_allowed /\ (h[a].fmts = <<>> \/ h[b].fmts = <<>>)
        a1 == IF skip /\ h[a].fmts = <<>> THEN b ELSE a
        b1 == IF skip /\ h[a].fmts = <<>> THEN a ELSE b
        common == CommonFormats(h[a].fmts, h[b].fmts, 1)
        k == Len(common)
        written == common \o SubSeq(h[a].fmts, k + 1, Len(h[a].fmts))
        h0 == [h EXCEPT ![a].fmts = written]
        h1 == IF skip THEN h ELSE [h EXCEPT ![a].fmts = SubSeq(written, 1, k)]
    IN IF skip /\ check THEN [heap |-> h, cfg |-> c, ret |-> 1]
       ELSE IF ~skip /\ k = 0 THEN [heap |-> h0, cfg |-> c, ret |-> 0]
       ELSE IF check THEN [heap |-> h1, cfg |-> c, ret |-> 1]
       ELSE IF oom # 0 THEN [heap |-> h1, cfg |-> c, ret |-> AVERROR_ENOMEM]
       ELSE [heap |-> MergeRef(h1, c, a1, b1).heap,
             cfg |-> MergeRef(h1, c, a1, b1).cfg, ret |-> 1]

\* MERGE_FORMATS(a, b, fmts, nb, type, check, empty_allowed); oom # 0 makes
\* the av_realloc_array of MERGE_REF fail
MergeFormats(h, c, a, b, check, empty_allowed, oom) ==
    LET skip == empty_allowed /\ (h[a].fmts = <<>> \/ h[b].fmts = <<>>)
        \* FFSWAP(type *, a, b) when a is the empty one
        a1 == IF skip /\ h[a].fmts = <<>> THEN b ELSE a
        b1 == IF skip /\ h[a].fmts = <<>> THEN a ELSE b
        common == CommonFormats(h[a].fmts, h[b].fmts, 1)
        k == Len(common)
        \* the array of a after the writes a->fmts[k++] = a->fmts[i]
        written == common \o SubSeq(h[a].fmts, k + 1, Len(h[a].fmts))
        \* a->nb is still the old count when 0 is returned, k afterwards
        h0 == [h EXCEPT ![a].fmts = written]
        h1 == IF skip THEN h ELSE [h EXCEPT ![a].fmts = SubSeq(written, 1, k)]
    IN IF skip /\ check THEN [heap |-> h, cfg |-> c, ret |-> 1]
       ELSE IF ~skip /\ check
       THEN [heap |-> h, cfg |-> c, ret |-> IF k > 0 THEN 1 ELSE 0]
       ELSE IF ~skip /\ k = 0 THEN [heap |-> h0, cfg |-> c, ret |-> 0]
       ELSE IF oom # 0 THEN [heap |-> h1, cfg |-> c, ret |-> AVERROR_ENOMEM]
       ELSE [heap |-> MergeRef(h1, c, a1, b1).heap,
             cfg |-> MergeRef(h1, c, a1, b1).cfg, ret |-> 1]

\* the chroma / alpha scan of merge_formats_internal over the cross product
Alpha2(afmts, bfmts) ==
    \E i \in 1..Len(afmts), j \in 1..Len(bfmts) :
        PixDesc(afmts[i]).alpha /\ PixDesc(bfmts[j]).alpha
Chroma2(afmts, bfmts) ==
    \E i \in 1..Len(afmts), j \in 1..Len(bfmts) :
        PixDesc(afmts[i]).nb_components > 1 /\ PixDesc(bfmts[j]).nb_components > 1
Alpha1(afmts, bfmts) ==
    \E i \in 1..Len(afmts), j \in 1..Len(bfmts) :
        afmts[i] = bfmts[j] /\ PixDesc(afmts[i]).alpha
Chroma1(afmts, bfmts) ==
    \E i \in 1..Len(afmts), j \in 1..Len(bfmts) :
        afmts[i] = bfmts[j] /\ PixDesc(afmts[i]).nb_components > 1

\* LosesChromaOrAlpha as it would be if the alpha test were left out
LosesChromaOnly(afmts, bfmts) == Chroma2(afmts, bfmts) /\ ~Chroma1(afmts, bfmts)

\* "If chroma or alpha can be lost through merging then do not merge"
LosesChromaOrAlpha(afmts, bfmts) ==
    \/ Alpha2(afmts, bfmts) /\ ~Alpha1(afmts, bfmts)
    \/ Chroma2(afmts, bfmts) /\ ~Chroma1(afmts, bfmts)

\* merge_formats_internal as it would be without the test a == b
MergeFormatsInternalNoSelfTest(h, c, a, b, type, check, oom) ==
    IF type = AVMEDIA_TYPE_VIDEO /\ LosesChromaOrAlpha(h[a].fmts, h[b].fmts)
    THEN [heap |-> h, cfg |-> c, ret |-> 0]
    ELSE IF a = b /\ ~check /\ CommonFormats(h[a].fmts, h[b].fmts, 1) # <<>>
    \* MERGE_REF(a, a): the owners are appended to themselves, then a is freed
    THEN [heap |-> [h EXCEPT ![a] = FreeRec], cfg |-> c, ret |-> 1]
    ELSE MergeFormats(h, c, a, b, check, FALSE, oom)

\* merge_formats_internal as it would be if the loss test came after the merge
MergeThenLossTest(h, c, a, b, type, check, oom) ==
    IF a = b THEN [heap |-> h, cfg |-> c, ret |-> 1]
    ELSE LET r == MergeFormats(h, c, a, b, check, FALSE, oom)
         IN IF type = AVMEDIA_TYPE_VIDEO /\ LosesChromaOrAlpha(h[a].fmts, h[b].fmts)
            THEN [r EXCEPT !.ret = 0]
            ELSE r

\* merge_formats_internal as it would be if it passed empty_allowed = 1
MergeFormatsInternalEmptyAllowed(h, c, a, b, type, check, oom) ==
    IF a = b THEN [heap |-> h, cfg |-> c, ret |-> 1]
    ELSE IF type = AVMEDIA_TYPE_VIDEO /\ LosesChromaOrAlpha(h[a].fmts, h[b].fmts)
    THEN [heap |-> h, cfg |-> c, ret |-> 0]
    ELSE MergeFormats(h, c, a, b, check, TRUE, oom)

merge_formats_internal(h, c, a, b, type, check, oom) ==
    IF a = b THEN [heap |-> h, cfg |-> c, ret |-> 1]
    ELSE IF type = AVMEDIA_TYPE_VIDEO /\ LosesChromaOrAlpha(h[a].fmts, h[b].fmts)
    THEN [heap |-> h, cfg |-> c, ret |-> 0]
    ELSE MergeFormats(h, c, a, b, check, FALSE, oom)

\* merge_samplerates_internal as it would be with empty_allowed = 0
MergeSampleratesNoEmpty(h, c, a, b, check, oom) ==
    IF a = b THEN [heap |-> h, cfg |-> c, ret |-> 1]
    ELSE MergeFormats(h, c, a, b, check, FALSE, oom)

merge_samplerates_internal(h, c, a, b, check, oom) ==
    IF a = b THEN [heap |-> h, cfg |-> c, ret |-> 1]
    ELSE MergeFormats(h, c, a, b, check, TRUE, oom)

\* --------------------------------------------------- merge_channel_layouts
\* av_channel_layout_copy(dst, src) where dst and src are the same object:
\* the copy clears dst before it reads src, so the entry may come out zeroed
SelfCopy(l, selfZero) == IF selfZero THEN ZeroLayout ELSE l

\* "keep only known layouts in b": the loop over i with the write index j
\* (both counted from 0); yields the array and the final j
RECURSIVE KeepKnown(_, _, _, _)
KeepKnown(arr, i, j, selfZero) ==
    IF i >= Len(arr) THEN [arr |-> arr, j |-> j]
    ELSE IF ~KNOWN(arr[i + 1]) THEN KeepKnown(arr, i + 1, j, selfZero)
    ELSE IF i = j THEN KeepKnown(arr, i + 1, j + 1, selfZero)
    \* i != j++ held: the copy goes to position j as already incremented
    ELSE KeepKnown([arr EXCEPT ![j + 2] = IF j + 1 = i THEN SelfCopy(@, selfZero)
                                          ELSE arr[i + 1]],
                   i + 1, j + 1, selfZero)

\* n copies of x
Copies(x, n) == [k \in 1..n |-> x]

\* "a[known] intersect b[known]": a matched entry goes to the result and is
\* uninitialised in both a and b
RECURSIVE KnownKnown(_, _, _, _)
KnownKnown(a, b, ret, i) ==
    IF i > Len(a) THEN [a |-> a, b |-> b, ret |-> ret]
    ELSE LET hits == {j \in 1..Len(b) : av_channel_layout_compare(a[i], b[j]) = 0}
             j == CHOOSE j \in hits : \A k \in hits : j <= k
         IN IF ~KNOWN(a[i]) \/ hits = {} THEN KnownKnown(a, b, ret, i + 1)
            ELSE KnownKnown([a EXCEPT ![i] = ZeroLayout], [b EXCEPT ![j] = ZeroLayout],
                            Append(ret, a[i]), i + 1)

\* KnownGeneric as it would be if the channel counts were not compared
RECURSIVE KnownGenericAnyCount(_, _, _, _)
KnownGenericAnyCount(a, b, ret, i) ==
    IF i > Len(a) THEN ret
    ELSE LET fmt == a[i]
             n == Cardinality({j \in 1..Len(b) : ~KNOWN(b[j])})
         IN IF ~av_channel_layout_check(fmt) \/ ~KNOWN(fmt)
            THEN KnownGenericAnyCount(a, b, ret, i + 1)
            ELSE KnownGenericAnyCount(a, b, ret \o Copies(fmt, n), i + 1)

\* one round of "a[known] intersect b[generic]": every valid known entry of a
\* is added once per generic entry of b with its channel count
RECURSIVE KnownGeneric(_, _, _, _)
KnownGeneric(a, b, ret, i) ==
    IF i > Len(a) THEN ret
    ELSE LET fmt == a[i]
             bfmt == FF_COUNT2LAYOUT(fmt.nb_channels)
             n == Cardinality({j \in 1..Len(b) : av_channel_layout_compare(b[j], bfmt) = 0})
         IN IF ~av_channel_layout_check(fmt) \/ ~KNOWN(fmt)
            THEN KnownGeneric(a, b, ret, i + 1)
            ELSE KnownGeneric(a, b, ret \o Copies(fmt, n), i + 1)

\* "a[generic] intersect b[generic]"
RECURSIVE GenericGeneric(_, _, _, _)
GenericGeneric(a, b, ret, i) ==
    IF i > Len(a) THEN ret
    ELSE LET n == Cardinality({j \in 1..Len(b) : av_channel_layout_compare(a[i], b[j]) = 0})
         IN IF KNOWN(a[i]) THEN GenericGeneric(a, b, ret, i + 1)
            ELSE GenericGeneric(a, b, ret \o Copies(a[i], n), i + 1)

\* MergeGeneric as it would be if the generic list a were kept: a takes the
\* entries and the owners of b, its flags are cleared and b is destroyed
MergeGenericKeepsA(h, c, a, b, oom, selfZero) ==
    LET a_all == h[a].all_layouts + h[a].all_counts
        b_all == h[b].all_layouts + h[b].all_counts
        filter == a_all = 1 /\ b_all = 0
        kept == KeepKnown(h[b].fmts, 0, 0, selfZero)
        h1 == IF filter THEN [h EXCEPT ![b].fmts = SubSeq(kept.arr, 1, kept.j)] ELSE h
        h2 == [h1 EXCEPT ![a].fmts = h1[b].fmts,
                         ![a].all_layouts = h1[b].all_layouts,
                         ![a].all_counts = h1[b].all_counts]
    IN IF filter /\ kept.j = 0
       THEN [heap |-> [h EXCEPT ![b].fmts = kept.arr], cfg |-> c, ret |-> 0, ub |-> FALSE]
       ELSE IF oom = 1 THEN [heap |-> h1, cfg |-> c, ret |-> AVERROR_ENOMEM, ub |-> FALSE]
       ELSE [heap |-> MergeRef(h2, c, a, b).heap, cfg |-> MergeRef(h2, c, a, b).cfg,
             ret |-> 1, ub |-> FALSE]

\* MergeGeneric as it would be if the generic list a were kept with its
\* flags and given the entries of b
MergeGenericKeepsFlags(h, c, a, b, oom, selfZero) ==
    LET a_all == h[a].all_layouts + h[a].all_counts
        b_all == h[b].all_layouts + h[b].all_counts
        filter == a_all = 1 /\ b_all = 0
        kept == KeepKnown(h[b].fmts, 0, 0, selfZero)
        h1 == IF filter THEN [h EXCEPT ![b].fmts = SubSeq(kept.arr, 1, kept.j)] ELSE h
        h2 == [h1 EXCEPT ![a].fmts = h1[b].fmts]
    IN IF filter /\ kept.j = 0
       THEN [heap |-> [h EXCEPT ![b].fmts = kept.arr], cfg |-> c, ret |-> 0, ub |-> FALSE]
       ELSE IF oom = 1 THEN [heap |-> h1, cfg |-> c, ret |-> AVERROR_ENOMEM, ub |-> FALSE]
       ELSE [heap |-> MergeRef(h2, c, a, b).heap, cfg |-> MergeRef(h2, c, a, b).cfg,
             ret |-> 1, ub |-> FALSE]

\* MergeGeneric as it would be if "any count" filtered the concrete list too
MergeGenericAlwaysFilters(h, c, a, b, oom, selfZero) ==
    LET a_all == h[a].all_layouts + h[a].all_counts
        b_all == h[b].all_layouts + h[b].all_counts
        filter == a_all >= 1 /\ b_all = 0
        kept == KeepKnown(h[b].fmts, 0, 0, selfZero)
        h1 == IF filter THEN [h EXCEPT ![b].fmts = SubSeq(kept.arr, 1, kept.j)] ELSE h
    IN IF filter /\ kept.j = 0
       THEN [heap |-> [h EXCEPT ![b].fmts = kept.arr], cfg |-> c, ret |-> 0, ub |-> FALSE]
       ELSE IF oom = 1 THEN [heap |-> h1, cfg |-> c, ret |-> AVERROR_ENOMEM, ub |-> FALSE]
       ELSE [heap |-> MergeRef(h1, c, b, a).heap, cfg |-> MergeRef(h1, c, b, a).cfg,
             ret |-> 1, ub |-> FALSE]

\* the branch of merge_channel_layouts taken when a, the more generic of the
\* two lists, is "any layout" or "any count"; oom = 1 makes MERGE_REF fail
MergeGeneric(h, c, a, b, oom, selfZero) ==
    LET a_all == h[a].all_layouts + h[a].all_counts
        b_all == h[b].all_layouts + h[b].all_counts
        filter == a_all = 1 /\ b_all = 0
        kept == KeepKnown(h[b].fmts, 0, 0, selfZero)
        h1 == IF filter THEN [h EXCEPT ![b].fmts = SubSeq(kept.arr, 1, kept.j)] ELSE h
    IN IF filter /\ kept.j = 0
       THEN [heap |-> [h EXCEPT ![b].fmts = kept.arr], cfg |-> c, ret |-> 0, ub |-> FALSE]
       ELSE IF oom = 1 THEN [heap |-> h1, cfg |-> c, ret |-> AVERROR_ENOMEM, ub |-> FALSE]
       ELSE [heap |-> MergeRef(h1, c, b, a).heap, cfg |-> MergeRef(h1, c, b, a).cfg,
             ret |-> 1, ub |-> FALSE]

\* MergeConcrete as it would be if the result array had room for the entries
\* of a only
MergeConcreteSmallArray(h, c, a, b, oom) ==
    LET ret_max == Len(h[a].fmts)
        p1 == KnownKnown(h[a].fmts, h[b].fmts, <<>>, 1)
        r0 == KnownGeneric(p1.a, p1.b, p1.ret, 1)
        r1 == KnownGeneric(p1.b, p1.a, r0, 1)
        channel_layouts == GenericGeneric(p1.a, p1.b, r1, 1)
        h1 == [h EXCEPT ![a].fmts = p1.a, ![b].fmts = p1.b]
        a1 == IF h[a].refcount > h[b].refcount THEN b ELSE a
        b1 == IF h[a].refcount > h[b].refcount THEN a ELSE b
        m == MergeRef(h1, c, b1, a1)
        ub == Len(channel_layouts) > ret_max
    IN IF oom = 1 THEN [heap |-> h, cfg |-> c, ret |-> AVERROR_ENOMEM, ub |-> FALSE]
       ELSE IF channel_layouts = <<>> THEN [heap |-> h1, cfg |-> c, ret |-> 0, ub |-> ub]
       ELSE IF oom = 2 THEN [heap |-> h1, cfg |-> c, ret |-> AVERROR_ENOMEM, ub |-> ub]
       ELSE [heap |-> [m.heap EXCEPT ![b1].fmts = channel_layouts], cfg |-> m.cfg,
             ret |-> 1, ub |-> ub]

\* MergeConcrete as it would be if the second round ran over the same lists
\* as the first (no FFSWAP between the rounds)
MergeConcreteSameRound(h, c, a, b, oom) ==
    LET ret_max == Len(h[a].fmts) + Len(h[b].fmts)
        p1 == KnownKnown(h[a].fmts, h[b].fmts, <<>>, 1)
        r0 == KnownGeneric(p1.a, p1.b, p1.ret, 1)
        r1 == KnownGeneric(p1.a, p1.b, r0, 1)
        channel_layouts == GenericGeneric(p1.a, p1.b, r1, 1)
        h1 == [h EXCEPT ![a].fmts = p1.a, ![b].fmts = p1.b]
        a1 == IF h[a].refcount > h[b].refcount THEN b ELSE a
        b1 == IF h[a].refcount > h[b].refcount THEN a ELSE b
        m == MergeRef(h1, c, b1, a1)
        ub == Len(channel_layouts) > ret_max
    IN IF oom = 1 THEN [heap |-> h, cfg |-> c, ret |-> AVERROR_ENOMEM, ub |-> FALSE]
       ELSE IF channel_layouts = <<>> THEN [heap |-> h1, cfg |-> c, ret |-> 0, ub |-> ub]
       ELSE IF oom = 2 THEN [heap |-> h1, cfg |-> c, ret |-> AVERROR_ENOMEM, ub |-> ub]
       ELSE [heap |-> [m.heap EXCEPT ![b1].fmts = channel_layouts], cfg |-> m.cfg,
             ret |-> 1, ub |-> ub]

\* MergeConcrete as it would be without the exchange that makes the list
\* with more owners the one that is kept
MergeConcreteNoSwap(h, c, a, b, oom) ==
    LET ret_max == Len(h[a].fmts) + Len(h[b].fmts)
        p1 == KnownKnown(h[a].fmts, h[b].fmts, <<>>, 1)
        r0 == KnownGeneric(p1.a, p1.b, p1.ret, 1)
        r1 == KnownGeneric(p1.b, p1.a, r0, 1)
        channel_layouts == GenericGeneric(p1.a, p1.b, r1, 1)
        h1 == [h EXCEPT ![a].fmts = p1.a, ![b].fmts = p1.b]
        m == MergeRef(h1, c, b, a)
        ub == Len(channel_layouts) > ret_max
    IN IF oom = 1 THEN [heap |-> h, cfg |-> c, ret |-> AVERROR_ENOMEM, ub |-> FALSE]
       ELSE IF channel_layouts = <<>> THEN [heap |-> h1, cfg |-> c, ret |-> 0, ub |-> ub]
       ELSE IF oom = 2 THEN [heap |-> h1, cfg |-> c, ret |-> AVERROR_ENOMEM, ub |-> ub]
       ELSE [heap |-> [m.heap EXCEPT ![b].fmts = channel_layouts], cfg |-> m.cfg,
             ret |-> 1, ub |-> ub]

\* the branch for two concrete lists; oom = 1 makes av_calloc fail, oom = 2
\* makes MERGE_REF fail; ub tells that more than ret_max entries were written
MergeConcrete(h, c, a, b, oom) ==
    LET ret_max == Len(h[a].fmts) + Len(h[b].fmts)
        p1 == KnownKnown(h[a].fmts, h[b].fmts, <<>>, 1)
        r0 == KnownGeneric(p1.a, p1.b, p1.ret, 1)
        r1 == KnownGeneric(p1.b, p1.a, r0, 1)
        channel_layouts == GenericGeneric(p1.a, p1.b, r1, 1)
        h1 == [h EXCEPT ![a].fmts = p1.a, ![b].fmts = p1.b]
        \* if (a->refcount > b->refcount) FFSWAP(a, b)
        a1 == IF h[a].refcount > h[b].refcount THEN b ELSE a
        b1 == IF h[a].refcount > h[b].refcount THEN a ELSE b
        m == MergeRef(h1, c, b1, a1)
        ub == Len(channel_layouts) > ret_max
    IN IF oom = 1 THEN [heap |-> h, cfg |-> c, ret |-> AVERROR_ENOMEM, ub |-> FALSE]
       ELSE IF channel_layouts = <<>> THEN [heap |-> h1, cfg |-> c, ret |-> 0, ub |-> ub]
       ELSE IF oom = 2 THEN [heap |-> h1, cfg |-> c, ret |-> AVERROR_ENOMEM, ub |-> ub]
       ELSE [heap |-> [m.heap EXCEPT ![b1].fmts = channel_layouts], cfg |-> m.cfg,
             ret |-> 1, ub |-> ub]

\* MergeChannelLayouts as it would be if the less generic list were put in a
MergeChannelLayoutsLeastGeneric(h, c, va, vb, oom, selfZero) ==
    LET va_all == h[va].all_layouts + h[va].all_counts
        vb_all == h[vb].all_layouts + h[vb].all_counts
        a == IF va_all > vb_all THEN vb ELSE va
        b == IF va_all > vb_all THEN va ELSE vb
        a_all == h[a].all_layouts + h[a].all_counts
    IN IF va = vb THEN [heap |-> h, cfg |-> c, ret |-> 1, ub |-> FALSE]
       ELSE IF a_all # 0 THEN MergeGeneric(h, c, a, b, oom, selfZero)
       ELSE MergeConcrete(h, c, a, b, oom)

\* MergeChannelLayouts as it would be without "put the most generic set in a"
MergeChannelLayoutsNoSwap(h, c, va, vb, oom, selfZero) ==
    LET a_all == h[va].all_layouts + h[va].all_counts
    IN IF va = vb THEN [heap |-> h, cfg |-> c, ret |-> 1, ub |-> FALSE]
       ELSE IF a_all # 0 THEN MergeGeneric(h, c, va, vb, oom, selfZero)
       ELSE MergeConcrete(h, c, va, vb, oom)

MergeChannelLayouts(h, c, va, vb, oom, selfZero) ==
    LET va_all == h[va].all_layouts + h[va].all_counts
        vb_all == h[vb].all_layouts + h[vb].all_counts
        \* "Put the most generic set in a, to avoid doing everything twice"
        a == IF va_all < vb_all THEN vb ELSE va
        b == IF va_all < vb_all THEN va ELSE vb
        a_all == h[a].all_layouts + h[a].all_counts
    IN IF va = vb THEN [heap |-> h, cfg |-> c, ret |-> 1, ub |-> FALSE]
       ELSE IF a_all # 0 THEN MergeGeneric(h, c, a, b, oom, selfZero)
       ELSE MergeConcrete(h, c, a, b, oom)

\* ------------------------------------------------------------- validation
AVERROR_EINVAL == 0 - 22

\* check_list as it would be without the loop over the pairs of entries
CheckListNoPairs(h, fmts) ==
    IF fmts = NULL THEN 0
    ELSE IF Len(h[fmts].fmts) = 0 THEN AVERROR_EINVAL
    ELSE 0

\* check_list(log, name, fmts): a scalar list must be non-empty and free of
\* duplicates; fmts is a list of the heap h, or NULL
check_list(h, fmts) ==
    IF fmts = NULL THEN 0
    ELSE IF Len(h[fmts].fmts) = 0 THEN AVERROR_EINVAL
    ELSE IF \E i \in 1..Len(h[fmts].fmts) : \E j \in (i + 1)..Len(h[fmts].fmts) :
               h[fmts].fmts[i] = h[fmts].fmts[j]
    THEN AVERROR_EINVAL
    ELSE 0

ff_formats_check_pixel_formats(h, fmts) == check_list(h, fmts)

ff_formats_check_sample_formats(h, fmts) == check_list(h, fmts)

\* ff_formats_check_sample_rates as it would be without its own test for the
\* empty list
CheckSampleRatesNoEmptyTest(h, fmts) == check_list(h, fmts)

\* an empty sample-rate list means "any rate" and is accepted
ff_formats_check_sample_rates(h, fmts) ==
    IF fmts = NULL THEN 0
    ELSE IF Len(h[fmts].fmts) = 0 THEN 0
    ELSE check_list(h, fmts)

\* layouts_compatible as it would be if only equal layouts were compatible
LayoutsEqualOnly(a, b) == av_channel_layout_compare(a, b) = 0

layouts_compatible(a, b) ==
    \/ av_channel_layout_compare(a, b) = 0
    \/ (KNOWN(a) /\ ~KNOWN(b) /\ a.nb_channels = b.nb_channels)
    \/ (KNOWN(b) /\ ~KNOWN(a) /\ b.nb_channels = a.nb_channels)

ff_formats_check_channel_layouts(h, fmts) ==
    IF fmts = NULL THEN 0
    ELSE IF h[fmts].all_layouts < h[fmts].all_counts THEN AVERROR_EINVAL
    ELSE IF h[fmts].all_layouts = 0 /\ Len(h[fmts].fmts) = 0 THEN AVERROR_EINVAL
    ELSE IF \E i \in 1..Len(h[fmts].fmts) : \E j \in (i + 1)..Len(h[fmts].fmts) :
               layouts_compatible(h[fmts].fmts[i], h[fmts].fmts[j])
    THEN AVERROR_EINVAL
    ELSE 0

\* ---------------------------------------------------------------- the calls
\* a call of one of the mergers on the lists a and b, which must have owners
MergeCall(op, a, b, r) ==
    /\ a \in Live /\ b \in Live
    /\ heap[a].refcount > 0 /\ heap[b].refcount > 0
    /\ UNCHANGED <<kind, buf, inlink, avci>>
    /\ heap' = r.heap
    /\ cfg' = r.cfg
    /\ last' = Call(op, r.ret, a, b)

merge_pix_fmts(a, b, oom) ==
    /\ kind = SCALAR
    /\ MergeCall("merge_pix_fmts", a, b,
                 merge_formats_internal(heap, cfg, a, b, AVMEDIA_TYPE_VIDEO, FALSE, oom))

merge_sample_fmts(a, b, oom) ==
    /\ kind = SCALAR
    /\ MergeCall("merge_sample_fmts", a, b,
                 merge_formats_internal(heap, cfg, a, b, AVMEDIA_TYPE_AUDIO, FALSE, oom))

merge_samplerates(a, b, oom) ==
    /\ kind = SCALAR
    /\ MergeCall("merge_samplerates", a, b,
                 merge_samplerates_internal(heap, cfg, a, b, FALSE, oom))

\* a call of one of the probes; the lists need no owner
ProbeCall(op, a, b, r) ==
    /\ a \in Live /\ b \in Live
    /\ UNCHANGED <<kind, buf, inlink, avci>>
    /\ heap' = r.heap
    /\ cfg' = r.cfg
    /\ last' = Call(op, r.ret, a, b)

can_merge_pix_fmts(a, b) ==
    /\ kind = SCALAR
    /\ ProbeCall("can_merge_pix_fmts", a, b,
                 merge_formats_internal(heap, cfg, a, b, AVMEDIA_TYPE_VIDEO, TRUE, 0))

can_merge_sample_fmts(a, b) ==
    /\ kind = SCALAR
    /\ ProbeCall("can_merge_sample_fmts", a, b,
                 merge_formats_internal(heap, cfg, a, b, AVMEDIA_TYPE_AUDIO, TRUE, 0))

can_merge_samplerates(a, b) ==
    /\ kind = SCALAR
    /\ ProbeCall("can_merge_samplerates", a, b,
                 merge_samplerates_internal(heap, cfg, a, b, TRUE, 0))

\* the value of `last.ret` after a call whose out-of-bounds write stopped the
\* process
Crashed == 0 - 1

\* merge_channel_layouts(va, vb); a call that wrote past the result array has
\* undefined behaviour: it either goes on with what it wrote or crashes
merge_channel_layouts(va, vb, oom, selfZero, crash) ==
    /\ kind = LAYOUTS
    /\ va \in Live /\ vb \in Live
    /\ LET r == MergeChannelLayouts(heap, cfg, va, vb, oom, selfZero)
       IN IF r.ub /\ crash
          THEN /\ heap[va].refcount > 0 /\ heap[vb].refcount > 0
               /\ UNCHANGED <<kind, heap, cfg, buf, inlink, avci>>
               /\ last' = Call("merge_channel_layouts", Crashed, va, vb)
          ELSE MergeCall("merge_channel_layouts", va, vb, r)

\* a call of one of the validation functions on the list fmts, or on NULL
CheckCall(op, ret, fmts) ==
    /\ fmts # NULL => fmts \in Live
    /\ last' = Call(op, ret, fmts, NULL)
    /\ UNCHANGED <<kind, heap, cfg, buf, inlink, avci>>

CheckPixelFormats(fmts) ==
    /\ kind = SCALAR
    /\ CheckCall("ff_formats_check_pixel_formats",
                 ff_formats_check_pixel_formats(heap, fmts), fmts)

CheckSampleFormats(fmts) ==
    /\ kind = SCALAR
    /\ CheckCall("ff_formats_check_sample_formats",
                 ff_formats_check_sample_formats(heap, fmts), fmts)

CheckSampleRates(fmts) ==
    /\ kind = SCALAR
    /\ CheckCall("ff_formats_check_sample_rates",
                 ff_formats_check_sample_rates(heap, fmts), fmts)

CheckChannelLayouts(fmts) ==
    /\ kind = LAYOUTS
    /\ CheckCall("ff_formats_check_channel_layouts",
                 ff_formats_check_channel_layouts(heap, fmts), fmts)

\* ------------------------------------------------------------ negotiation
AVMEDIA_TYPE_SUBTITLE == "subtitle"
MediaTypes == {AVMEDIA_TYPE_UNKNOWN, AVMEDIA_TYPE_VIDEO, AVMEDIA_TYPE_AUDIO,
               AVMEDIA_TYPE_SUBTITLE}

\* the NULL function pointer of a merger without a probe
NoProbe == "NULL"

\* an AVFilterFormatsMerger: the field of the link configuration it works on
\* and the names of its functions
Merger(offset, merge, can_merge) ==
    [offset |-> offset, merge |-> merge, can_merge |-> can_merge]

mergers_video ==
    <<Merger("formats", "merge_pix_fmts", "can_merge_pix_fmts")>>

\* mergers_audio as it would be with the sample format negotiated first
MergersAudioFormatFirst ==
    <<Merger("formats", "merge_sample_fmts", "can_merge_sample_fmts"),
      Merger("samplerates", "merge_samplerates", "can_merge_samplerates"),
      Merger("channel_layouts", "merge_channel_layouts", NoProbe)>>

mergers_audio ==
    <<Merger("channel_layouts", "merge_channel_layouts", NoProbe),
      Merger("samplerates", "merge_samplerates", "can_merge_samplerates"),
      Merger("formats", "merge_sample_fmts", "can_merge_sample_fmts")>>

negotiate_video ==
    [nb_mergers |-> Len(mergers_video), mergers |-> mergers_video,
     conversion_filter |-> "scale", conversion_opts_offset |-> "scale_sws_opts"]

negotiate_audio ==
    [nb_mergers |-> Len(mergers_audio), mergers |-> mergers_audio,
     conversion_filter |-> "aresample", conversion_opts_offset |-> "aresample_swr_opts"]

\* ff_filter_get_negotiation(link), link->type = type: the descriptor of the
\* media type, or NULL
ff_filter_get_negotiation(type) ==
    /\ last' = Call("ff_filter_get_negotiation",
                    CASE type = AVMEDIA_TYPE_VIDEO -> negotiate_video
                      [] type = AVMEDIA_TYPE_AUDIO -> negotiate_audio
                      [] OTHER -> NULL,
                    type, NULL)
    /\ UNCHANGED <<kind, heap, cfg, buf, inlink, avci>>

\* ------------------------------------------------------- specifications
\* the lists the filters of the negotiation runs declare
DeclaredFormats ==
    {<<GRAY8, SENTINEL>>, <<RGB24, SENTINEL>>, <<RGB24, GRAY8, SENTINEL>>}
DeclaredLayouts ==
    {<<FF_COUNT2LAYOUT(2), ZeroLayout>>, <<MONO, ZeroLayout>>, <<STEREO, MONO, ZeroLayout>>}

\* a negotiation run: filters declare lists, slots take and drop ownership,
\* lists are broadcast and merged, in any order
Next ==
    \/ \E fmts \in DeclaredFormats, oom \in BOOLEAN :
          ff_make_format_list(fmts, oom)
    \/ ff_all_samplerates
    \/ \E fmts \in DeclaredLayouts, oom \in BOOLEAN :
          ff_make_channel_layout_list(fmts, oom)
    \/ ff_all_channel_layouts
    \/ ff_all_channel_counts
    \/ \E f \in SetIds \cup {NULL}, ref \in Slots, oom \in BOOLEAN : FormatsRef(f, ref, oom)
    \/ \E ref \in Slots : FormatsUnref(ref)
    \/ \E oldref \in Slots \cup {NULL}, newref \in Slots, held \in SetIds :
          FormatsChangeref(oldref, newref, held)
    \/ \E ctx \in Contexts, f \in SetIds \cup {NULL}, oomAt \in 0..(NSlots - 1) :
          ff_set_common_formats(ctx, f, oomAt)
    \/ \E ctx \in Contexts, f \in SetIds \cup {NULL}, oomAt \in 0..(NSlots - 1) :
          ff_set_common_samplerates(ctx, f, oomAt)
    \/ \E ctx \in Contexts, f \in SetIds \cup {NULL}, oomAt \in 0..(NSlots - 1) :
          ff_set_common_channel_layouts(ctx, f, oomAt)
    \/ \E a \in SetIds, b \in SetIds : can_merge_pix_fmts(a, b)
    \/ \E a \in SetIds, b \in SetIds : can_merge_sample_fmts(a, b)
    \/ \E a \in SetIds, b \in SetIds : can_merge_samplerates(a, b)
    \/ \E a \in SetIds, b \in SetIds, oom \in 0..1 : merge_pix_fmts(a, b, oom)
    \/ \E a \in SetIds, b \in SetIds, oom \in 0..1 : merge_sample_fmts(a, b, oom)
    \/ \E a \in SetIds, b \in SetIds, oom \in 0..1 : merge_samplerates(a, b, oom)
    \/ \E a \in SetIds, b \in SetIds, oom \in 0..2, selfZero \in BOOLEAN, crash \in BOOLEAN :
          merge_channel_layouts(a, b, oom, selfZero, crash)

Spec == Init /\ [][Next]_vars

\* the merge functions on their own: two lists of any content, each owned by
\* some slots, are handed to the mergers
OwnedRec(list, allLayouts, allCounts, owners) ==
    [NewRec(list, allLayouts, allCounts) EXCEPT !.refs = owners, !.refcount = Len(owners)]

\* the lists a channel-layout slot can hold before any merge
LayoutOperands ==
    {[fmts |-> l, all_layouts |-> 0, all_counts |-> 0] : l \in SeqsUpTo(LayoutIds, MaxLen)}
    \cup {[fmts |-> <<>>, all_layouts |-> 1, all_counts |-> 0],
          [fmts |-> <<>>, all_layouts |-> 1, all_counts |-> 1]}
FormatOperands ==
    {[fmts |-> l, all_layouts |-> 0, all_counts |-> 0] : l \in SeqsUpTo(FmtIds, MaxLen)}

InitMerge ==
    /\ kind \in {SCALAR, LAYOUTS}
    /\ \E na \in 1..(NSlots - 1) : \E nb \in 1..(NSlots - na) :
       \E A \in (IF kind = SCALAR THEN FormatOperands ELSE LayoutOperands) :
       \E B \in (IF kind = SCALAR THEN FormatOperands ELSE LayoutOperands) :
          /\ heap = [f \in SetIds |->
                       IF f = 1 THEN OwnedRec(A.fmts, A.all_layouts, A.all_counts,
                                              [i \in 1..na |-> i])
                       ELSE IF f = 2 THEN OwnedRec(B.fmts, B.all_layouts, B.all_counts,
                                                   [i \in 1..nb |-> na + i])
                       ELSE FreeRec]
          /\ cfg = [s \in Slots |-> IF s <= na THEN 1 ELSE IF s <= na + nb THEN 2 ELSE NULL]
    /\ last = Call("init", 0, NULL, NULL)
    /\ SinkInit
    /\ EncoderInit("encode", FALSE)

NextMerge ==
    \/ \E a \in SetIds, b \in SetIds : can_merge_pix_fmts(a, b)
    \/ \E a \in SetIds, b \in SetIds : can_merge_sample_fmts(a, b)
    \/ \E a \in SetIds, b \in SetIds : can_merge_samplerates(a, b)
    \/ \E a \in SetIds, b \in SetIds, oom \in 0..1 : merge_pix_fmts(a, b, oom)
    \/ \E a \in SetIds, b \in SetIds, oom \in 0..1 : merge_sample_fmts(a, b, oom)
    \/ \E a \in SetIds, b \in SetIds, oom \in 0..1 : merge_samplerates(a, b, oom)
    \/ \E a \in SetIds, b \in SetIds, oom \in 0..2, selfZero \in BOOLEAN, crash \in BOOLEAN :
          merge_channel_layouts(a, b, oom, selfZero, crash)

SpecMerge == InitMerge /\ [][NextMerge]_vars

\* the functions that look at one list: a filter has left a list of any
\* content in slot 1; lists are built from literal arrays, lists are
\* validated, and the negotiation descriptor of a link is looked up
ScalarLiterals ==
    {l \in SeqsUpTo(FmtIds \cup {SENTINEL}, MaxLen + 1) : SENTINEL \in Range(l)}
LayoutLiterals ==
    {l \in SeqsUpTo(LayoutIds \cup {ZeroLayout}, MaxLen + 1) : ZeroLayout \in Range(l)}

\* the lists a filter can leave in a channel-layout slot: it fills the
\* fields as it likes
QueriedLayouts ==
    {[fmts |-> l, all_layouts |-> al, all_counts |-> ac] :
        l \in SeqsUpTo(LayoutIds, MaxLen), al \in 0..1, ac \in 0..1}

InitCheck ==
    /\ kind \in {SCALAR, LAYOUTS}
    /\ \E L \in (IF kind = SCALAR THEN FormatOperands ELSE QueriedLayouts) :
          heap = [f \in SetIds |->
                    IF f = 1 THEN OwnedRec(L.fmts, L.all_layouts, L.all_counts, <<1>>)
                    ELSE FreeRec]
    /\ cfg = [s \in Slots |-> IF s = 1 THEN 1 ELSE NULL]
    /\ last = Call("init", 0, NULL, NULL)
    /\ SinkInit
    /\ EncoderInit("encode", FALSE)

NextCheck ==
    \/ \E fmts \in ScalarLiterals \cup {NoArray}, oom \in BOOLEAN :
          ff_make_format_list(fmts, oom)
    \/ \E fmts \in LayoutLiterals \cup {NoArray}, oom \in BOOLEAN :
          ff_make_channel_layout_list(fmts, oom)
    \/ \E fmts \in SetIds \cup {NULL} : CheckPixelFormats(fmts)
    \/ \E fmts \in SetIds \cup {NULL} : CheckSampleFormats(fmts)
    \/ \E fmts \in SetIds \cup {NULL} : CheckSampleRates(fmts)
    \/ \E fmts \in SetIds \cup {NULL} : CheckChannelLayouts(fmts)
    \/ \E type \in MediaTypes : ff_filter_get_negotiation(type)

SpecCheck == InitCheck /\ [][NextCheck]_vars

TypeOK ==
    /\ \A f \in SetIds : heap[f].refcount \in 0..NSlots
    /\ \A s \in Slots : cfg[s] \in SetIds \cup {NULL}

\* ================================================================ claims
MergeOps == {"merge_pix_fmts", "merge_sample_fmts", "merge_samplerates",
             "merge_channel_layouts"}
ScalarMergeOps == {"merge_pix_fmts", "merge_sample_fmts", "merge_samplerates"}

\* the last call is a call of a merger on two distinct lists
MergedDistinct == last.op \in MergeOps /\ last.a # last.b

\* the entries, wildcard flags, owner list and refcount of list f are the same
\* before and after the last call
SameList(f) == heap[f] = last.heap[f]
\* s survives the last call and d does not
Survives(s, d) == heap[s].live /\ ~heap[d].live

\* C1: after a successful merge of two distinct lists exactly one of the two
\* instances survives, its refcount is the sum of the two refcounts before
\* the call, every slot that pointed to either list points to the survivor
\* and no slot points to the other instance.
C1_MergeJoinsOwners ==
       (MergedDistinct /\ last.ret = 1) =>
         \E s \in {last.a, last.b} : \E d \in {last.a, last.b} \ {s} :
            /\ Survives(s, d)
            /\ heap[s].refcount = last.heap[s].refcount + last.heap[d].refcount
            /\ \A x \in Slots : (last.cfg[x] \in {s, d} => cfg[x] = s) /\ cfg[x] # d
            /\ \A x \in Slots : last.cfg[x] \notin {s, d} => cfg[x] = last.cfg[x]

C1_Witness ==
    /\ last.op = "merge_channel_layouts" /\ last.ret = 1 /\ last.a # last.b
    /\ \E s \in {last.a, last.b} :
          /\ heap[s].live /\ heap[s].refcount >= 3
          /\ \A x \in Slots : cfg[x] = s

\* C2: when a merger returns 0 both lists keep their entries, wildcard flags,
\* owner lists and refcounts, and every slot points where it pointed before.
C2_FailedMergeUnchanged ==
       (last.op \in MergeOps /\ last.ret = 0) =>
         /\ SameList(last.a)
         /\ SameList(last.b)
         /\ cfg = last.cfg

C2_Witness ==
    /\ last.op = "merge_pix_fmts" /\ last.ret = 0 /\ last.a # last.b
    /\ heap[last.a].fmts = <<RGB24, GRAY8>>
    /\ heap[last.b].fmts = <<YUV420P>>

\* C3 as stated: a merge that fails with ENOMEM leaves both lists with the
\* entries, owners and refcount they had before the call.
C3_OomMergeUnchanged ==
       (MergedDistinct /\ last.ret = AVERROR_ENOMEM) =>
         SameList(last.a) /\ SameList(last.b)

\* the identifiers of a list, and the entries of l that lie in S, in l's order
Ids(l) == Range(l)
InOrderOf(l, S) == SelectSeq(l, LAMBDA x : x \in S)

\* the lists handed to the merger of the last call, as they were before it
ListA == last.heap[last.a].fmts
ListB == last.heap[last.b].fmts

\* chroma / alpha loss as the documentation words it: both lists have a format
\* with chroma (resp. alpha) but no format common to both has it
HasChroma(S) == \E x \in S : PixDesc(x).nb_components > 1
HasAlpha(S) == \E x \in S : PixDesc(x).alpha
ChromaOrAlphaLoss(A, B) ==
    \/ HasChroma(A) /\ HasChroma(B) /\ ~HasChroma(A \cap B)
    \/ HasAlpha(A) /\ HasAlpha(B) /\ ~HasAlpha(A \cap B)

\* C4: a scalar merge of two non-empty lists that share an identifier (and,
\* for pixel formats, lose no chroma or alpha) succeeds unless an allocation
\* fails, the first list survives and its entries are its former entries
\* that also occur in the second list, in their former order.
C4_ScalarIntersection ==
       (/\ last.op \in ScalarMergeOps /\ last.a # last.b
        /\ ListA # <<>> /\ ListB # <<>>
        /\ Ids(ListA) \cap Ids(ListB) # {}
        /\ (last.op = "merge_pix_fmts" => ~ChromaOrAlphaLoss(Ids(ListA), Ids(ListB)))
        /\ last.ret # AVERROR_ENOMEM) =>
         /\ last.ret = 1
         /\ Survives(last.a, last.b)
         /\ heap[last.a].fmts = InOrderOf(ListA, Ids(ListB))

C4_Witness ==
    /\ last.op = "merge_pix_fmts" /\ last.ret = 1 /\ last.a # last.b
    /\ heap[last.a].live /\ ~heap[last.b].live
    /\ heap[last.a].fmts = <<RGBA, YUV420P>>

\* C5: a pixel-format merge or probe of two distinct lists returns 0 whenever
\* chroma or alpha would be lost, even if the lists share a format; the
\* sample-format and sample-rate mergers and probes do not apply the rule.
C5_ChromaAlphaLoss ==
         /\ (/\ last.op \in {"merge_pix_fmts", "can_merge_pix_fmts"}
             /\ last.a # last.b
             /\ ChromaOrAlphaLoss(Ids(ListA), Ids(ListB))) => last.ret = 0
         /\ (/\ last.op \in {"merge_sample_fmts", "can_merge_sample_fmts",
                              "merge_samplerates", "can_merge_samplerates"}
             /\ last.a # last.b
             /\ ChromaOrAlphaLoss(Ids(ListA), Ids(ListB))
             /\ Ids(ListA) \cap Ids(ListB) # {}
             /\ last.ret # AVERROR_ENOMEM) => last.ret = 1

C5_Witness ==
    /\ last.op = "merge_pix_fmts" /\ last.ret = 0 /\ last.a # last.b
    /\ heap[last.a].fmts = <<YUV420P, GRAY8>>
    /\ heap[last.b].fmts = <<RGB24, GRAY8>>

\* C6: a sample-rate merge in which one list is empty succeeds unless the
\* allocation fails, in either argument order; the survivor has the entries
\* of the other list, unchanged, and owns the slots of both lists.
C6_SamplerateAbsorption ==
       (/\ last.op = "merge_samplerates" /\ last.a # last.b
        /\ (ListA = <<>> \/ ListB = <<>>)
        /\ last.ret # AVERROR_ENOMEM) =>
         /\ last.ret = 1
         /\ \E s \in {last.a, last.b} : \E d \in {last.a, last.b} \ {s} :
               /\ Survives(s, d)
               /\ heap[s].fmts = (IF ListA = <<>> THEN ListB ELSE ListA)
               /\ Range(Owners(heap, s)) = Range(Owners(last.heap, s)) \cup Range(Owners(last.heap, d))
               /\ \A x \in Slots : last.cfg[x] \in {s, d} => cfg[x] = s

C6_Witness ==
    /\ last.op = "merge_samplerates" /\ last.ret = 1 /\ last.a # last.b
    /\ ~heap[last.a].live /\ heap[last.b].live
    /\ heap[last.b].fmts = <<RGB24, GRAY8>>
    /\ heap[last.b].refcount = 3

\* a concrete channel-layout list: no wildcard flag, entries of the catalogue
Concrete(h, f) ==
    /\ h[f].all_layouts = 0 /\ h[f].all_counts = 0
    /\ Ids(h[f].fmts) \subseteq LayoutIds
\* two entries are redundant when equal, or when one is a known layout and the
\* other the generic count of its number of channels
Redundant(x, y) ==
    \/ x = y
    \/ x \in KnownLayouts /\ y = FF_COUNT2LAYOUT(x.nb_channels)
    \/ y \in KnownLayouts /\ x = FF_COUNT2LAYOUT(y.nb_channels)
RedundantFree(l) == \A i \in 1..Len(l), j \in 1..Len(l) : i # j => ~Redundant(l[i], l[j])

\* what two concrete lists have in common
CommonLayouts(A, B) ==
    ((A \cap B) \cap KnownLayouts)
    \cup {x \in A \cap KnownLayouts : FF_COUNT2LAYOUT(x.nb_channels) \in B}
    \cup {x \in B \cap KnownLayouts : FF_COUNT2LAYOUT(x.nb_channels) \in A}
    \cup ((A \cap B) \cap GenericLayouts)

\* C7: for two distinct concrete channel-layout lists without redundant pairs
\* merge_channel_layouts succeeds (no allocation failing) iff they have a
\* layout in common, and the survivor then holds exactly the common layouts:
\* known layouts of both, known layouts matched by a generic count of the
\* other list, generic counts of both.
C7_ConcreteLayoutMerge ==
       (/\ last.op = "merge_channel_layouts" /\ last.a # last.b
        /\ Concrete(last.heap, last.a) /\ Concrete(last.heap, last.b)
        /\ RedundantFree(ListA) /\ RedundantFree(ListB)
        /\ last.ret # AVERROR_ENOMEM) =>
         LET E == CommonLayouts(Ids(ListA), Ids(ListB))
         IN /\ (last.ret = 1) <=> (E # {})
            /\ (last.ret = 0) <=> (E = {})
            /\ last.ret = 1 =>
                 \E s \in {last.a, last.b} : \E d \in {last.a, last.b} \ {s} :
                    /\ Survives(s, d)
                    /\ Ids(heap[s].fmts) = E
                    /\ Len(heap[s].fmts) = Cardinality(E)
                    /\ heap[s].all_layouts = 0 /\ heap[s].all_counts = 0

C7_Witness ==
    /\ last.op = "merge_channel_layouts" /\ last.ret = 1 /\ last.a # last.b
    /\ \E s \in {last.a, last.b} :
          /\ heap[s].live /\ heap[s].all_layouts = 0
          /\ heap[s].fmts = <<STEREO, FF_COUNT2LAYOUT(1)>>
          /\ heap[s].refcount = 3

\* C8 as stated: merging an "any known layout" list with a concrete list
\* fails iff the concrete list has no known layout, and otherwise the
\* survivor holds the known layouts of the concrete list, in their order.
C8_AllLayoutsKeepsKnown ==
       (/\ last.op = "merge_channel_layouts" /\ last.a # last.b
        /\ \E g \in {last.a, last.b} : \E k \in {last.a, last.b} \ {g} :
              /\ last.heap[g].all_layouts = 1 /\ last.heap[g].all_counts = 0
              /\ Concrete(last.heap, k)
        /\ last.ret # AVERROR_ENOMEM) =>
         \E g \in {last.a, last.b} : \E k \in {last.a, last.b} \ {g} :
            /\ Concrete(last.heap, k)
            /\ (last.ret = 0) <=> (Ids(last.heap[k].fmts) \cap KnownLayouts = {})
            /\ last.ret # 0 =>
                 /\ last.ret = 1
                 /\ \E s \in {g, k} :
                       /\ heap[s].live
                       /\ heap[s].fmts = InOrderOf(last.heap[k].fmts, KnownLayouts)

\* C9: merging an "any channel count" list with a concrete list, in either
\* argument order, succeeds unless the allocation fails, and every owner of
\* either list then sees the entries of the concrete list, all of them, with
\* both wildcard flags clear.
C9_AllCountsAbsorbed ==
       (/\ last.op = "merge_channel_layouts" /\ last.a # last.b
        /\ \E g \in {last.a, last.b} : \E k \in {last.a, last.b} \ {g} :
              last.heap[g].all_counts = 1 /\ Concrete(last.heap, k)
        /\ last.ret # AVERROR_ENOMEM) =>
         /\ last.ret = 1
         /\ \E g \in {last.a, last.b} : \E k \in {last.a, last.b} \ {g} :
               /\ Concrete(last.heap, k)
               /\ \A x \in Slots : last.cfg[x] \in {g, k} =>
                     /\ heap[cfg[x]].live
                     /\ heap[cfg[x]].fmts = last.heap[k].fmts
                     /\ heap[cfg[x]].all_layouts = 0
                     /\ heap[cfg[x]].all_counts = 0

C9_Witness ==
    /\ last.op = "merge_channel_layouts" /\ last.ret = 1
    /\ last.a = 2 /\ last.b = 1
    /\ ~heap[1].live /\ heap[2].live
    /\ heap[2].fmts = <<FF_COUNT2LAYOUT(2), MONO>>
    /\ heap[2].refcount = 3

\* C10: the refcount of every list is the length of its owner list, no slot
\* is listed twice, every listed slot points back to the list, and every
\* non-empty slot is listed by the list it points to and by no other.
C10_OwnersConsistent ==
    /\ \A f \in SetIds :
          /\ heap[f].refcount = Len(heap[f].refs)
          /\ \A i \in 1..Len(heap[f].refs), j \in 1..Len(heap[f].refs) :
                i # j => heap[f].refs[i] # heap[f].refs[j]
          /\ \A i \in 1..Len(heap[f].refs) : cfg[heap[f].refs[i]] = f
    /\ \A x \in Slots : cfg[x] # NULL =>
          /\ heap[cfg[x]].live
          /\ {f \in SetIds : x \in Range(heap[f].refs)} = {cfg[x]}

C10_Witness ==
    /\ last.op = "changeref"
    /\ \E f \in SetIds : heap[f].live /\ heap[f].refcount = 2 /\ heap[f].refs = <<3, 1>>
    /\ cfg[2] = NULL

BroadcastOps == {"ff_set_common_formats", "ff_set_common_samplerates",
                 "ff_set_common_channel_layouts"}
ProbeOps == {"can_merge_pix_fmts", "can_merge_sample_fmts", "can_merge_samplerates"}

\* C11 as stated: when a broadcast fails with ENOMEM no slot that was empty
\* before the call owns a list afterwards (the slots already registered are
\* rolled back) and the list is released.
C11_BroadcastAtomic ==
       (last.op \in BroadcastOps /\ last.ret = AVERROR_ENOMEM) =>
         \A s \in Slots : last.cfg[s] = NULL => cfg[s] = NULL

\* C12: a probe changes nothing, whatever it returns: the entries, owner
\* lists and refcounts of all lists and all slot pointers are the same before
\* and after the call.
C12_ProbeChangesNothing ==
       (last.op \in ProbeOps) => (heap = last.heap /\ cfg = last.cfg)

C12_Witness ==
    /\ last.op = "can_merge_pix_fmts" /\ last.ret = 1 /\ last.a # last.b
    /\ heap[last.a].fmts = <<YUV420P, RGB24>>
    /\ heap[last.b].fmts = <<RGB24, GRAY8>>
    /\ heap[last.a].refcount = 2 /\ heap[last.b].refcount = 1

\* the return value of the scalar merger (check = FALSE, no allocation
\* failing) or probe (check = TRUE) named op on the lists a and b
ScalarRet(op, a, b, check) ==
    IF op \in {"merge_pix_fmts", "can_merge_pix_fmts"}
    THEN merge_formats_internal(last.heap, last.cfg, a, b, AVMEDIA_TYPE_VIDEO, check, 0).ret
    ELSE IF op \in {"merge_sample_fmts", "can_merge_sample_fmts"}
    THEN merge_formats_internal(last.heap, last.cfg, a, b, AVMEDIA_TYPE_AUDIO, check, 0).ret
    ELSE merge_samplerates_internal(last.heap, last.cfg, a, b, check, 0).ret

\* C13: on every pair of live scalar lists a probe returns 1 exactly when the
\* merger of the same kind, called on the same lists in the same state with
\* no allocation failing, returns 1; and a merger that did not run out of
\* memory returns 1 exactly when the probe of that state does.
C13_ProbeAgreesWithMerge ==
         /\ (last.op \in ProbeOps /\ last.heap[last.a].refcount > 0
                                    /\ last.heap[last.b].refcount > 0) =>
               /\ last.ret \in {0, 1}
               /\ (last.ret = 1) <=> (ScalarRet(last.op, last.a, last.b, FALSE) = 1)
         /\ (last.op \in ScalarMergeOps /\ last.ret # AVERROR_ENOMEM) =>
               /\ last.ret \in {0, 1}
               /\ (last.ret = 1) <=> (ScalarRet(last.op, last.a, last.b, TRUE) = 1)

C13_Witness ==
    /\ last.op = "can_merge_samplerates" /\ last.ret = 1 /\ last.a # last.b
    /\ heap[last.a].fmts = <<>> /\ heap[last.a].refcount > 0
    /\ heap[last.b].fmts = <<GRAY8, RGB24>> /\ heap[last.b].refcount > 0

\* the list f passes the validation of the attribute the merger op works on
Validated(op, f) ==
    CASE op = "merge_pix_fmts" -> ff_formats_check_pixel_formats(last.heap, f) = 0
      [] op = "merge_sample_fmts" -> ff_formats_check_sample_formats(last.heap, f) = 0
      [] op = "merge_samplerates" -> ff_formats_check_sample_rates(last.heap, f) = 0
      [] op = "merge_channel_layouts" -> ff_formats_check_channel_layouts(last.heap, f) = 0

\* the outcomes the merger op can have on (a, b) in the current state when no
\* allocation fails
MergeOutcomes(op, a, b) ==
    CASE op = "merge_pix_fmts" ->
           {merge_formats_internal(last.heap, last.cfg, a, b, AVMEDIA_TYPE_VIDEO, FALSE, 0)}
      [] op = "merge_sample_fmts" ->
           {merge_formats_internal(last.heap, last.cfg, a, b, AVMEDIA_TYPE_AUDIO, FALSE, 0)}
      [] op = "merge_samplerates" ->
           {merge_samplerates_internal(last.heap, last.cfg, a, b, FALSE, 0)}
      [] op = "merge_channel_layouts" ->
           {[heap |-> r.heap, cfg |-> r.cfg, ret |-> r.ret] :
              r \in {MergeChannelLayouts(last.heap, last.cfg, a, b, 0, z) : z \in BOOLEAN}}

\* the one of a and b that is alive in heap h
Survivor(h, a, b) == CHOOSE s \in {a, b} : h[s].live

\* C14: a merge of two distinct validated lists that did not run out of
\* memory has the outcome the merge with the arguments exchanged has from the
\* same state: the same return value and, on success, a survivor with the
\* same entries (in any order), the same wildcard flags and the same refcount.
C14_MergeCommutes ==
       (/\ MergedDistinct
        /\ Validated(last.op, last.a) /\ Validated(last.op, last.b)
        /\ last.ret \in {0, 1}) =>
         \E r \in MergeOutcomes(last.op, last.b, last.a) :
            /\ r.ret = last.ret
            /\ last.ret = 1 =>
                 LET s1 == heap[Survivor(heap, last.a, last.b)]
                     s2 == r.heap[Survivor(r.heap, last.a, last.b)]
                 IN /\ Range(s1.fmts) = Range(s2.fmts)
                    /\ Len(s1.fmts) = Len(s2.fmts)
                    /\ s1.all_layouts = s2.all_layouts
                    /\ s1.all_counts = s2.all_counts
                    /\ s1.refcount = s2.refcount

\* {stereo, count 1} merged with {mono, count 2}: the survivor holds stereo
\* and mono, in the order that depends on the order of the arguments
C14_Witness ==
    /\ last.op = "merge_channel_layouts" /\ last.ret = 1 /\ last.a # last.b
    /\ \E s \in {last.a, last.b} :
          /\ heap[s].live
          /\ heap[s].fmts = <<MONO, STEREO>>
          /\ heap[s].refcount = 2

\* C15: a merger or probe called with the same list as both arguments returns
\* 1, also when the list is empty, and changes no list and no slot.
C15_SelfMerge ==
       (last.op \in MergeOps \cup ProbeOps /\ last.a = last.b) =>
         /\ last.ret = 1
         /\ heap = last.heap
         /\ cfg = last.cfg

C15_Witness ==
    /\ last.op = "merge_pix_fmts" /\ last.ret = 1 /\ last.a = last.b
    /\ heap[last.a].live /\ heap[last.a].fmts = <<>> /\ heap[last.a].refcount = 2

\* C16: every channel-layout list that has all_counts set has all_layouts
\* set, in every state the constructors, owner operations, broadcasts and
\* merges can reach.
C16_CountsImplyLayouts ==
    \A f \in SetIds : heap[f].all_counts = 1 => heap[f].all_layouts = 1

\* two "any channel count" lists were merged and the survivor is owned
C16_Witness ==
    /\ last.op = "merge_channel_layouts" /\ last.ret = 1 /\ last.a # last.b
    /\ \E f \in SetIds :
          /\ heap[f].live /\ heap[f].all_counts = 1 /\ heap[f].all_layouts = 1
          /\ heap[f].refcount = 2

\* slot x is registered as an owner of the list f
Registered(f, x) == x \in Range(Owners(heap, f))

\* C17: an unref of a slot registered in its list removes that slot from the
\* owner list, lowers the refcount by exactly one and clears the slot; the
\* list is destroyed by the call iff its refcount was 1; nothing else changes.
C17_UnrefRemovesOwner ==
    [][\A ref \in Slots :
         (/\ last'.op = "unref"
          /\ cfg[ref] # NULL
          /\ Registered(cfg[ref], ref)
          /\ FormatsUnref(ref)) =>
            LET f == cfg[ref]
            IN /\ cfg' = [cfg EXCEPT ![ref] = NULL]
               /\ (~heap'[f].live) <=> (heap[f].refcount = 1)
               /\ heap'[f].live =>
                     /\ heap'[f].refcount = heap[f].refcount - 1
                     /\ Owners(heap', f) = SelectSeq(Owners(heap, f), LAMBDA x : x # ref)
                     /\ heap'[f].fmts = heap[f].fmts
               /\ \A g \in SetIds \ {f} : heap'[g] = heap[g]]_vars

\* the middle owner of three was removed
C17_Witness ==
    /\ last.op = "unref"
    /\ last.a # NULL
    /\ heap[last.a].live /\ heap[last.a].refs = <<1, 3>> /\ heap[last.a].refcount = 2
    /\ cfg = [s \in Slots |-> IF s \in {1, 3} THEN last.a ELSE NULL]

\* C18: a changeref from a slot registered in its list to an empty slot keeps
\* the list, its entries and refcount, puts the new slot at the position of
\* the old one in the owner list, makes the new slot point to the list and
\* the old slot empty; from a location that is not registered it changes
\* nothing.
C18_ChangerefRepoints ==
    [][\A oldref \in Slots \cup {NULL}, newref \in Slots, held \in SetIds :
         (last'.op = "changeref" /\ FormatsChangeref(oldref, newref, held)) =>
            IF oldref # NULL /\ Registered(held, oldref)
            THEN /\ heap'[held].live
                 /\ heap'[held].fmts = heap[held].fmts
                 /\ heap'[held].refcount = heap[held].refcount
                 /\ \A i \in 1..heap[held].refcount :
                       heap'[held].refs[i] = IF heap[held].refs[i] = oldref THEN newref
                                             ELSE heap[held].refs[i]
                 /\ cfg' = [cfg EXCEPT ![newref] = held, ![oldref] = NULL]
                 /\ \A g \in SetIds \ {held} : heap'[g] = heap[g]
            ELSE heap' = heap /\ cfg' = cfg]_vars

\* the first of two owners was moved to the free slot
C18_Witness ==
    /\ last.op = "changeref"
    /\ last.a # NULL /\ last.b = 3
    /\ heap[last.a].live /\ heap[last.a].refs = <<3, 2>> /\ heap[last.a].refcount = 2
    /\ cfg = [s \in Slots |-> IF s \in {2, 3} THEN last.a ELSE NULL]

\* the endpoint slots of the filter ctx a broadcast for media_type is meant
\* for: the link exists, its kind matches and the slot is empty
Targets(ctx, media_type) ==
    {s \in Slots :
       /\ s \in Range(ctx.inputs) \cup Range(ctx.outputs)
       /\ cfg[s] = NULL
       /\ (media_type = AVMEDIA_TYPE_UNKNOWN \/ LinkType(s) = media_type)}

\* the step registered f on the targets and left every other slot alone
RegisteredOn(f, targets) ==
    \A s \in Slots : cfg'[s] = IF s \in targets THEN f ELSE cfg[s]

\* C19: a broadcast in which no allocation fails makes exactly the empty
\* endpoint slots of the filter whose link exists and has the kind of the
\* broadcast (any kind for ff_set_common_formats, audio for the other two)
\* point to the list; every other slot points where it pointed before.
C19_BroadcastTargets ==
    [][(last'.op \in BroadcastOps /\ last'.ret = 0) =>
         \A ctx \in Contexts, oomAt \in 0..(NSlots - 1) :
            LET f == last'.a
            IN /\ (/\ last'.op = "ff_set_common_formats"
                    /\ ff_set_common_formats(ctx, f, oomAt)) =>
                     RegisteredOn(f, Targets(ctx, AVMEDIA_TYPE_UNKNOWN))
               /\ (/\ last'.op = "ff_set_common_samplerates"
                    /\ ff_set_common_samplerates(ctx, f, oomAt)) =>
                     RegisteredOn(f, Targets(ctx, AVMEDIA_TYPE_AUDIO))
               /\ (/\ last'.op = "ff_set_common_channel_layouts"
                    /\ ff_set_common_channel_layouts(ctx, f, oomAt)) =>
                     RegisteredOn(f, Targets(ctx, AVMEDIA_TYPE_AUDIO))]_vars

\* a sample-rate list was broadcast over the filter with the video input 1,
\* an unconnected output and the audio output 2, slot 3 being owned already
C19_Witness ==
    /\ last.op = "ff_set_common_samplerates" /\ last.ret = 0
    /\ last.a # NULL /\ last.b = 0
    /\ heap[last.a].live /\ heap[last.a].refs = <<2>>
    /\ cfg[1] = NULL /\ cfg[2] = last.a
    /\ cfg[3] \notin {NULL, last.a}

\* the media type a broadcast filters on
BroadcastType(op) ==
    IF op = "ff_set_common_formats" THEN AVMEDIA_TYPE_UNKNOWN ELSE AVMEDIA_TYPE_AUDIO

\* C20: a successful broadcast of a list without owners that applied to
\* k >= 1 slots leaves that one instance alive with refcount k, owned by
\* exactly these k slots, with its entries unchanged, and allocates no list.
C20_BroadcastShares ==
    [][\A ctx \in Contexts, f \in SetIds, oomAt \in 0..(NSlots - 1) :
         LET T == Targets(ctx, BroadcastType(last'.op))
         IN (/\ last'.op \in BroadcastOps /\ last'.ret = 0
             /\ last'.a = f /\ last'.b = 0
             /\ heap[f].refcount = 0
             /\ T # {}
             /\ \/ ff_set_common_formats(ctx, f, oomAt)
                 \/ ff_set_common_samplerates(ctx, f, oomAt)
                 \/ ff_set_common_channel_layouts(ctx, f, oomAt)) =>
               /\ heap'[f].live
               /\ heap'[f].refcount = Cardinality(T)
               /\ Range(Owners(heap', f)) = T
               /\ \A s \in T : cfg'[s] = f
               /\ heap'[f].fmts = heap[f].fmts
               /\ {g \in SetIds : heap'[g].live} = Live]_vars

C20_Witness ==
    /\ last.op = "ff_set_common_formats" /\ last.ret = 0
    /\ last.a # NULL /\ last.b = 0
    /\ heap[last.a].live /\ heap[last.a].refs = <<1, 2>> /\ heap[last.a].refcount = 2
    /\ cfg = [s \in Slots |-> IF s \in {1, 2} THEN last.a ELSE NULL]

\* the step is the broadcast named by last'.op over ctx with the list f
BroadcastStep(ctx, f, oomAt) ==
    CASE last'.op = "ff_set_common_formats" -> ff_set_common_formats(ctx, f, oomAt)
      [] last'.op = "ff_set_common_samplerates" -> ff_set_common_samplerates(ctx, f, oomAt)
      [] last'.op = "ff_set_common_channel_layouts" ->
           ff_set_common_channel_layouts(ctx, f, oomAt)

\* C21 as stated: a broadcast reports success only if it registered the list
\* on at least one slot (the code has no way for the caller to allow a
\* broadcast that reaches no slot).
C21_BroadcastNeedsTarget ==
       (last.op \in BroadcastOps /\ last.ret = 0) =>
         \E s \in Slots : last.cfg[s] = NULL /\ cfg[s] = last.a

\* C21 amended: a broadcast of a list over a filter none of whose slots it
\* applies to returns 0 and changes no slot; a list without owners is freed
\* by the call and a list with owners is left as it was.
C21_BroadcastZeroApplication ==
    [][(last'.op \in BroadcastOps /\ last'.a # NULL) =>
         \A ctx \in Contexts, oomAt \in 0..(NSlots - 1) :
            LET f == last'.a
            IN (/\ Targets(ctx, BroadcastType(last'.op)) = {}
                /\ BroadcastStep(ctx, f, oomAt)) =>
                  /\ last'.ret = 0
                  /\ cfg' = cfg
                  /\ heap[f].refcount = 0 => ~heap'[f].live
                  /\ heap[f].refcount > 0 => heap' = heap
                  /\ \A g \in SetIds \ {f} : heap'[g] = heap[g]]_vars

\* a fresh sample-rate list was broadcast over a filter without audio links
\* and freed, while the other list keeps its owner
C21_Witness ==
    /\ last.op = "ff_set_common_samplerates" /\ last.ret = 0
    /\ last.a # NULL /\ last.b = 0
    /\ ~heap[last.a].live
    /\ \E g \in SetIds \ {last.a} : heap[g].live /\ heap[g].refs = <<1>>
    /\ cfg[2] = NULL /\ cfg[3] = NULL

\* ---------------------------------------------------------------- C22
ScalarCheckOps == {"ff_formats_check_pixel_formats", "ff_formats_check_sample_formats",
                   "ff_formats_check_sample_rates"}
HasDuplicate(l) == \E i \in 1..Len(l), j \in 1..Len(l) : i # j /\ l[i] = l[j]

\* C22: the validation of a scalar list (pixel formats, sample formats, sample
\* rates) returns the invalid-configuration error whenever an identifier
\* occurs twice in the list, and returns success for every non-empty list
\* without a duplicate.
C22_ScalarValidation ==
    (last.op \in ScalarCheckOps /\ last.a # NULL) =>
       LET l == heap[last.a].fmts
       IN /\ HasDuplicate(l) => last.ret = AVERROR_EINVAL
          /\ (l # <<>> /\ ~HasDuplicate(l)) => last.ret = 0

C22_Witness ==
    /\ last.op = "ff_formats_check_sample_rates" /\ last.a # NULL
    /\ heap[last.a].fmts = <<RGB24, RGB24>>
    /\ last.ret = AVERROR_EINVAL

\* ---------------------------------------------------------------- C23
\* C23 as stated: the validation rejects every empty scalar list, whichever
\* of the three kinds it is validated as, sample rates included.
C23_EmptyRejected ==
    (last.op \in ScalarCheckOps /\ last.a # NULL /\ heap[last.a].fmts = <<>>) =>
       last.ret = AVERROR_EINVAL

\* C23 amended: an empty list is rejected when it is validated as pixel
\* formats or as sample formats, and accepted when it is validated as sample
\* rates.
C23_EmptyRejectedButRates ==
    (last.op \in ScalarCheckOps /\ last.a # NULL /\ heap[last.a].fmts = <<>>) =>
       IF last.op = "ff_formats_check_sample_rates"
       THEN last.ret = 0
       ELSE last.ret = AVERROR_EINVAL

C23_Witness ==
    /\ last.op = "ff_formats_check_sample_rates" /\ last.a # NULL
    /\ heap[last.a].live /\ heap[last.a].fmts = <<>>
    /\ last.ret = 0

\* ---------------------------------------------------------------- C24
RedundantPair(l) == \E i \in 1..Len(l), j \in 1..Len(l) : i # j /\ Redundant(l[i], l[j])

\* C24: the validation of a channel-layout list returns the error exactly
\* when the list has all_counts set without all_layouts, or has no entries
\* while all_layouts is clear, or holds a pair of entries that are equal or
\* of which one is the generic layout with the channel count of the other;
\* in every other case, the absent list included, it returns success.
C24_LayoutValidation ==
    (last.op = "ff_formats_check_channel_layouts") =>
       IF last.a = NULL THEN last.ret = 0
       ELSE LET f == heap[last.a]
                bad == \/ f.all_counts = 1 /\ f.all_layouts = 0
                       \/ f.fmts = <<>> /\ f.all_layouts = 0
                       \/ RedundantPair(f.fmts)
            IN /\ bad => last.ret = AVERROR_EINVAL
               /\ ~bad => last.ret = 0

C24_Witness ==
    /\ last.op = "ff_formats_check_channel_layouts" /\ last.a # NULL
    /\ heap[last.a].fmts = <<STEREO, FF_COUNT2LAYOUT(2)>>
    /\ heap[last.a].all_layouts = 1 /\ heap[last.a].all_counts = 1
    /\ last.ret = AVERROR_EINVAL

\* ---------------------------------------------------------------- C25
\* the entries of a literal array before its first end marker
BeforeMarker(l, markers) ==
    IF l = NoArray THEN <<>>
    ELSE LET first == CHOOSE i \in 1..Len(l) :
                         l[i] \in markers /\ \A j \in 1..(i - 1) : l[j] \notin markers
         IN SubSeq(l, 1, first - 1)

\* a fresh list without owners and without wildcard flags holding `entries`
FreshList(f, entries) ==
    /\ ~heap[f].live /\ heap'[f].live
    /\ heap'[f].fmts = entries
    /\ heap'[f].refcount = 0 /\ heap'[f].refs = <<>>
    /\ heap'[f].all_layouts = 0 /\ heap'[f].all_counts = 0
    /\ \A g \in SetIds \ {f} : heap'[g] = heap[g]
    /\ cfg' = cfg

\* C25: building a list from a literal array yields a list without owners
\* whose entries are the entries of the array before the first end marker
\* (-1 for a scalar array, a layout of zero channels for a layout array), in
\* the order of the array; an absent array or one that starts with the end
\* marker yields an empty list without owners and with no wildcard flag.
C25_LiteralConstructor ==
    [][/\ (last'.op = "ff_make_format_list" /\ last'.ret = 1) =>
            \A fmts \in ScalarLiterals \cup {NoArray} :
               (Len(fmts) = last'.b /\ ff_make_format_list(fmts, FALSE)) =>
                  /\ FreshList(last'.a, BeforeMarker(fmts, {SENTINEL}))
                  /\ (fmts = NoArray \/ fmts[1] = SENTINEL) => heap'[last'.a].fmts = <<>>
       /\ (last'.op = "ff_make_channel_layout_list" /\ last'.ret = 1) =>
            \A fmts \in LayoutLiterals \cup {NoArray} :
               (Len(fmts) = last'.b /\ ff_make_channel_layout_list(fmts, FALSE)) =>
                  /\ FreshList(last'.a, BeforeMarker(fmts, {ZeroLayout}))
                  /\ (fmts = NoArray \/ fmts[1] = ZeroLayout) => heap'[last'.a].fmts = <<>>]_vars

C25_Witness ==
    /\ last.op = "ff_make_format_list" /\ last.ret = 1 /\ last.b = 3
    /\ heap[last.a].live /\ heap[last.a].fmts = <<RGB24>>
    /\ heap[last.a].refcount = 0

\* ---------------------------------------------------------------- C27
\* the fields and the merge functions of a descriptor, in negotiation order
Fields(n) == [i \in 1..n.nb_mergers |-> n.mergers[i].offset]
MergeFunctions(n) == [i \in 1..n.nb_mergers |-> n.mergers[i].merge]

\* C27: the negotiation descriptor of an audio link lists channel layouts,
\* then sample rates, then sample formats, each with its merge function, and
\* names the resampling filter as the conversion stage; the descriptor of a
\* video link lists the pixel formats alone and names the scaling filter; a
\* link of any other media type has no descriptor.
C27_NegotiationOrder ==
    (last.op = "ff_filter_get_negotiation") =>
       CASE last.a = AVMEDIA_TYPE_AUDIO ->
               /\ Fields(last.ret) = <<"channel_layouts", "samplerates", "formats">>
               /\ MergeFunctions(last.ret) =
                     <<"merge_channel_layouts", "merge_samplerates", "merge_sample_fmts">>
               /\ last.ret.conversion_filter = "aresample"
         [] last.a = AVMEDIA_TYPE_VIDEO ->
               /\ Fields(last.ret) = <<"formats">>
               /\ MergeFunctions(last.ret) = <<"merge_pix_fmts">>
               /\ last.ret.conversion_filter = "scale"
         [] OTHER -> last.ret = NULL

C27_Witness ==
    /\ last.op = "ff_filter_get_negotiation"
    /\ last.a = AVMEDIA_TYPE_AUDIO
    /\ last.ret.nb_mergers = 3
    /\ last.ret.mergers[1].offset = "channel_layouts"

\* ---------------------------------------------------------------- C26
\* C26: in a successful merge of two distinct concrete channel-layout lists
\* the instance that survives is the operand that had strictly more owners
\* before the call, and the second operand when both had as many; the
\* survivor holds the owners of both and the result of the merge (not its
\* old entries: exactly the common layouts when the operands have no
\* redundant pair), and the other instance is released.
C26_LargerRefcountSurvives ==
       (/\ last.op = "merge_channel_layouts" /\ last.a # last.b
        /\ last.ret = 1
        /\ Concrete(last.heap, last.a) /\ Concrete(last.heap, last.b)) =>
         LET s == IF last.heap[last.a].refcount > last.heap[last.b].refcount
                  THEN last.a ELSE last.b
             d == CHOOSE x \in {last.a, last.b} : x # s
         IN /\ Survives(s, d)
            /\ heap[d] = FreeRec
            /\ Owners(heap, s) = Owners(last.heap, s) \o Owners(last.heap, d)
            /\ heap[s].fmts # <<>>
            /\ Ids(heap[s].fmts) \subseteq Ids(ListA) \cup Ids(ListB)
            /\ (RedundantFree(ListA) /\ RedundantFree(ListB)) =>
                  /\ Ids(heap[s].fmts) = CommonLayouts(Ids(ListA), Ids(ListB))
                  /\ Len(heap[s].fmts) = Cardinality(Ids(heap[s].fmts))

\* the first operand had two owners and the second one: the first survives;
\* four entries can only be the result of a merge of two concrete lists
C26_Witness ==
    /\ last.op = "merge_channel_layouts" /\ last.ret = 1
    /\ last.a = 1 /\ last.b = 2
    /\ heap[1].live /\ ~heap[2].live
    /\ heap[1].refcount = 3 /\ heap[1].refs = <<1, 2, 3>>
    /\ Len(heap[1].fmts) = 2 * MaxLen

\* ---------------------------------------------------------------- C28
\* f is "any known layout" or "any channel count"
Wildcard(h, f) == h[f].all_layouts = 1
\* the last call merged the wildcard list g with the concrete list k successfully
WildcardMerged(g, k) ==
    /\ last.op = "merge_channel_layouts" /\ last.ret = 1
    /\ {g, k} = {last.a, last.b} /\ g # k
    /\ Wildcard(last.heap, g) /\ Concrete(last.heap, k)

\* C28 as stated: in a successful merge of a wildcard list with a concrete
\* list the wildcard instance survives with the owners of both, entries and
\* cleared flags, and the concrete instance is released.
C28_GenericSurvives ==
       \A g \in SetIds, k \in SetIds :
         WildcardMerged(g, k) =>
            /\ Survives(g, k)
            /\ heap[g].refcount = last.heap[g].refcount + last.heap[k].refcount
            /\ heap[g].all_layouts = 0 /\ heap[g].all_counts = 0

\* C28 amended: in a successful merge of a wildcard list with a concrete
\* list the concrete instance survives: it keeps its clear flags, holds its
\* own owners followed by the owners of the wildcard list, and holds all its
\* entries ("any channel count") or as many entries as it had known layouts
\* ("any known layout"); the wildcard instance is released and every slot
\* of either list points to the concrete instance.
C28_ConcreteSurvives ==
       \A g \in SetIds, k \in SetIds :
         WildcardMerged(g, k) =>
            /\ Survives(k, g)
            /\ heap[g] = FreeRec
            /\ Owners(heap, k) = Owners(last.heap, k) \o Owners(last.heap, g)
            /\ heap[k].all_layouts = 0 /\ heap[k].all_counts = 0
            /\ last.heap[g].all_counts = 1 => heap[k].fmts = last.heap[k].fmts
            /\ last.heap[g].all_counts = 0 =>
                  /\ heap[k].fmts # <<>>
                  /\ Len(heap[k].fmts) = Len(InOrderOf(last.heap[k].fmts, KnownLayouts))
            /\ \A x \in Slots : last.cfg[x] \in {g, k} => cfg[x] = k

\* "any channel count", given first with two owners, was merged with the
\* list {2 channels, mono}: the second instance survives with its entries
C28_Witness ==
    /\ last.op = "merge_channel_layouts" /\ last.ret = 1
    /\ last.a = 1 /\ last.b = 2
    /\ ~heap[1].live /\ heap[2].live
    /\ heap[2].fmts = <<FF_COUNT2LAYOUT(2), MONO>>
    /\ heap[2].all_layouts = 0 /\ heap[2].all_counts = 0
    /\ heap[2].refs = <<3, 1, 2>>

\* ---------------------------------------------------------------- C29
\* the identifiers slot x sees in heap h with the slot pointers c
Seen(h, c, x) == Ids(h[c[x]].fmts)

\* C29: a scalar merge only narrows. After a successful merge of two
\* distinct lists every identifier of the survivor was an entry of both
\* lists, or, when a sample-rate merge absorbed an empty list, of the
\* non-empty one. Whatever a scalar merger returns, a slot that saw a
\* non-empty list before the call still sees a non-empty list, all of whose
\* identifiers it saw before; so no sequence of merges adds an identifier to
\* what such a slot sees.
C29_ScalarMergeNarrows ==
       (last.op \in ScalarMergeOps) =>
         /\ (last.ret = 1 /\ last.a # last.b) =>
               LET s == Survivor(heap, last.a, last.b)
                   absorbed == /\ last.op = "merge_samplerates"
                               /\ (ListA = <<>> \/ ListB = <<>>)
               IN IF absorbed
                  THEN Ids(heap[s].fmts) = Ids(ListA) \cup Ids(ListB)
                  ELSE Ids(heap[s].fmts) \subseteq Ids(ListA) \cap Ids(ListB)
         /\ \A x \in Slots :
               (last.cfg[x] # NULL /\ Seen(last.heap, last.cfg, x) # {}) =>
                  /\ cfg[x] # NULL
                  /\ heap[cfg[x]].live
                  /\ Seen(heap, cfg, x) # {}
                  /\ Seen(heap, cfg, x) \subseteq Seen(last.heap, last.cfg, x)

\* the list of slot 3 was merged with the list of slots 1 and 2: all three
\* slots see gray8 alone
C29_Witness ==
    /\ last.op = "merge_sample_fmts" /\ last.ret = 1
    /\ last.a = 2 /\ last.b = 1
    /\ heap[2].live /\ ~heap[1].live
    /\ heap[2].fmts = <<GRAY8>> /\ heap[2].refs = <<3, 1, 2>>
    /\ \A x \in Slots : cfg[x] = 2

\* ---------------------------------------------------------------- C30
\* C30: in every state the constructors, owner operations, broadcasts and
\* merges can reach, a channel-layout list with a wildcard flag set has no
\* entries; hence a list with entries has both wildcard flags clear.
C30_WildcardHasNoEntries ==
    \A f \in SetIds :
       /\ (heap[f].all_layouts = 1 \/ heap[f].all_counts = 1) => heap[f].fmts = <<>>
       /\ heap[f].fmts # <<>> => (heap[f].all_layouts = 0 /\ heap[f].all_counts = 0)

\* "any known layout" was merged with "any channel count": the survivor is
\* the "any known layout" list, without entries, owned by two slots
C30_Witness ==
    /\ last.op = "merge_channel_layouts" /\ last.ret = 1 /\ last.a # last.b
    /\ \E f \in {last.a, last.b} :
          /\ heap[f].live /\ heap[f].all_layouts = 1 /\ heap[f].all_counts = 0
          /\ heap[f].fmts = <<>>
          /\ heap[f].refcount = 2

\* ---------------------------------------------------------------- C31
FormatOps == {"merge_pix_fmts", "merge_sample_fmts",
              "can_merge_pix_fmts", "can_merge_sample_fmts"}
SamplerateOps == {"merge_samplerates", "can_merge_samplerates"}

\* C31: a merge or a probe of pixel formats or of sample formats on two
\* distinct lists of which at least one is empty returns 0 and changes no
\* list and no slot; a merge or a probe of sample rates on such lists
\* returns 1 unless the allocation fails.
C31_EmptyNotMergeable ==
       (/\ last.op \in FormatOps \cup SamplerateOps
        /\ last.a # last.b
        /\ (ListA = <<>> \/ ListB = <<>>)) =>
         IF last.op \in FormatOps
         THEN last.ret = 0 /\ heap = last.heap /\ cfg = last.cfg
         ELSE last.ret \in {1, AVERROR_ENOMEM}

C31_Witness ==
    /\ last.op = "merge_sample_fmts" /\ last.ret = 0 /\ last.a # last.b
    /\ heap[last.a].live /\ heap[last.a].fmts = <<>> /\ heap[last.a].refcount = 2
    /\ heap[last.b].live /\ heap[last.b].fmts = <<RGB24, GRAY8>>

\* ---------------------------------------------------------------- C32
\* C32: a broadcast of a list without owners over a filter that has no slot
\* the broadcast applies to frees the list before it returns: the instance
\* is not alive afterwards, no slot points to it and no slot has changed.
C32_UnappliedListFreed ==
    [][(last'.op \in BroadcastOps /\ last'.a # NULL /\ last'.b = 0) =>
         \A ctx \in Contexts, oomAt \in 0..(NSlots - 1) :
            (/\ Targets(ctx, BroadcastType(last'.op)) = {}
             /\ BroadcastStep(ctx, last'.a, oomAt)) =>
               /\ heap[last'.a].live /\ heap[last'.a].refcount = 0
               /\ heap'[last'.a] = FreeRec
               /\ \A s \in Slots : cfg'[s] = cfg[s] /\ cfg'[s] # last'.a]_vars

\* a channel-layout list was broadcast over the sink, whose only link is a
\* video link, while no slot held a list
C32_Witness ==
    /\ last.op = "ff_set_common_channel_layouts" /\ last.ret = 0
    /\ last.a # NULL /\ last.b = 0
    /\ ~heap[last.a].live
    /\ \A s \in Slots : cfg[s] = NULL

\* ---------------------------------------------------------------- C33
\* the last call merged two distinct concrete lists that both pass the validation
ValidConcreteMerged ==
    /\ last.op = "merge_channel_layouts" /\ last.a # last.b
    /\ Concrete(last.heap, last.a) /\ Concrete(last.heap, last.b)
    /\ ff_formats_check_channel_layouts(last.heap, last.a) = 0
    /\ ff_formats_check_channel_layouts(last.heap, last.b) = 0

\* C33: when two distinct concrete channel-layout lists that pass
\* ff_formats_check_channel_layouts are merged successfully, the survivor
\* passes it too: it is not empty, holds no entry twice and holds no known
\* layout together with the generic layout of its channel count.
C33_MergeKeepsValid ==
       (ValidConcreteMerged /\ last.ret = 1) =>
         LET s == Survivor(heap, last.a, last.b)
         IN /\ ff_formats_check_channel_layouts(heap, s) = 0
            /\ heap[s].fmts # <<>>
            /\ ~RedundantPair(heap[s].fmts)

\* the two stereo layouts were matched by the generic count 2
C33_Witness ==
    /\ last.op = "merge_channel_layouts" /\ last.ret = 1 /\ last.a # last.b
    /\ \E s \in {last.a, last.b} :
          /\ heap[s].live /\ heap[s].all_layouts = 0
          /\ heap[s].fmts = <<STEREO, STEREO_DOWNMIX>>
          /\ heap[s].refcount = 3

\* ---------------------------------------------------------------- C34
\* C34: in a merge of two distinct concrete channel-layout lists without
\* redundant pairs the four passes never write more entries than the result
\* array holds, the sum of the entry counts of the two lists: no call
\* writes out of bounds (whichever allocation fails), none crashes, and a
\* survivor has at most that many entries.
C34_ResultFitsArray ==
       (/\ last.op = "merge_channel_layouts" /\ last.a # last.b
        /\ Concrete(last.heap, last.a) /\ Concrete(last.heap, last.b)
        /\ RedundantFree(ListA) /\ RedundantFree(ListB)) =>
         /\ \A oom \in 0..2, selfZero \in BOOLEAN :
               ~MergeChannelLayouts(last.heap, last.cfg, last.a, last.b, oom, selfZero).ub
         /\ last.ret # Crashed
         /\ last.ret = 1 =>
               Len(heap[Survivor(heap, last.a, last.b)].fmts)
                  <= Len(ListA) + Len(ListB)

\* stereo and mono were each matched by a generic count of the other list
C34_Witness ==
    /\ last.op = "merge_channel_layouts" /\ last.ret = 1 /\ last.a # last.b
    /\ \E s \in {last.a, last.b} :
          /\ heap[s].live /\ heap[s].all_layouts = 0
          /\ heap[s].fmts = <<STEREO, MONO>>
          /\ heap[s].refcount = 3

\* ---------------------------------------------------------------- C35
\* the number of list instances alive in heap h
NbLive(h) == Cardinality({f \in SetIds : h[f].live})

Min(x, y) == IF x < y THEN x ELSE y

\* C36: a merge of two distinct wildcard channel-layout lists succeeds
\* unless the allocation fails, and the survivor is as permissive as the
\* less permissive of the two: it is "any channel count" only if both were,
\* and "any known layout" otherwise; it has no entries and owns the slots of
\* both lists, which all point to it.
C36_WildcardMerge ==
       (/\ last.op = "merge_channel_layouts" /\ last.a # last.b
        /\ Wildcard(last.heap, last.a) /\ Wildcard(last.heap, last.b)
        /\ last.ret # AVERROR_ENOMEM) =>
         /\ last.ret = 1
         /\ \E s \in {last.a, last.b} : \E d \in {last.a, last.b} \ {s} :
               /\ Survives(s, d)
               /\ heap[s].all_layouts = 1
               /\ heap[s].all_counts = Min(last.heap[s].all_counts, last.heap[d].all_counts)
               /\ heap[s].fmts = <<>>
               /\ Range(Owners(heap, s)) = Range(Owners(last.heap, s)) \cup Range(Owners(last.heap, d))
               /\ heap[s].refcount = last.heap[s].refcount + last.heap[d].refcount
               /\ \A x \in Slots : last.cfg[x] \in {s, d} => cfg[x] = s

\* "any known layout", given first, was merged with "any channel count":
\* the first instance survives as "any known layout"
C36_Witness ==
    /\ last.op = "merge_channel_layouts" /\ last.ret = 1
    /\ last.a = 1 /\ last.b = 2
    /\ heap[1].live /\ ~heap[2].live
    /\ heap[1].all_layouts = 1 /\ heap[1].all_counts = 0
    /\ heap[1].fmts = <<>> /\ heap[1].refcount = 3

\* ---------------------------------------------------------------- C37
\* C37: when ff_formats_ref / ff_channel_layouts_ref returns ENOMEM no slot
\* is modified; given no list it modifies nothing; given a list without
\* owners it destroys the list; given a list with owners it leaves the
\* entries, the owner list and the refcount of the list as they were. No
\* other list is touched.
C37_RefOutOfMemory ==
       (last.op = "ref" /\ last.ret = AVERROR_ENOMEM) =>
         /\ cfg = last.cfg
         /\ IF last.a = NULL
            THEN heap = last.heap
            ELSE LET f == last.a
                 IN /\ last.heap[f].refcount = 0 => heap[f] = FreeRec
                    /\ last.heap[f].refcount > 0 => heap[f] = last.heap[f]
                    /\ \A g \in SetIds \ {f} : heap[g] = last.heap[g]

\* the allocation failed while a third owner was added to a list
C37_Witness ==
    /\ last.op = "ref" /\ last.ret = AVERROR_ENOMEM
    /\ last.a # NULL
    /\ heap[last.a].live /\ heap[last.a].refcount = 2 /\ heap[last.a].refs = <<2, 1>>
    /\ cfg[3] = NULL

\* ---------------------------------------------------------------- C38
\* C38: an unref of a slot leaves every other slot pointing where it pointed
\* and every other list as it was; the owners that remain in the list of the
\* slot keep their relative order and still point to it; an unref of an
\* empty slot changes no list and no slot.
C38_UnrefFrame ==
    [][\A ref \in Slots :
         (last'.op = "unref" /\ FormatsUnref(ref)) =>
            IF cfg[ref] = NULL
            THEN heap' = heap /\ cfg' = cfg
            ELSE LET f == cfg[ref]
                     rest == SelectSeq(Owners(heap, f), LAMBDA x : x # ref)
                 IN /\ \A x \in Slots \ {ref} : cfg'[x] = cfg[x]
                    /\ \A g \in SetIds \ {f} : heap'[g] = heap[g]
                    /\ rest # <<>> =>
                          /\ heap'[f].live
                          /\ Owners(heap', f) = rest
                          /\ \A i \in 1..Len(rest) : cfg'[rest[i]] = f]_vars

\* the first of three owners was removed: the other two keep their order
C38_Witness ==
    /\ last.op = "unref"
    /\ last.a # NULL
    /\ heap[last.a].live /\ heap[last.a].refs = <<2, 3>> /\ heap[last.a].refcount = 2
    /\ cfg = [s \in Slots |-> IF s \in {2, 3} THEN last.a ELSE NULL]

\* ------------------------------------------------------------- buffer sink
\* the frames the graph can deliver to the sink in one run
MaxFrames == 3

AV_BUFFERSINK_FLAG_PEEK == 1
AV_BUFFERSINK_FLAG_NO_REQUEST == 2
AVERROR_EOF == 0 - 541478725
AVERROR_EAGAIN == 0 - 11

\* flags & flag, for the two one-bit flags of the sink
HasFlag(flags, flag) == (flags \div flag) % 2 = 1

\* what one run of the graph does to the input link of the sink: the filter
\* before the sink queues one more frame on it, or ends the stream, or fails
\* (frames are numbered in the order they enter the link)
GraphOutcomes(l) ==
    (IF l.status_in = 0 /\ l.frame_count_in < MaxFrames THEN {"frame"} ELSE {})
    \cup (IF l.status_in = 0 THEN {"eof"} ELSE {})
    \cup {"error"}

GraphRunOnce(l, outcome) ==
    IF outcome = "frame"
    THEN [l EXCEPT !.fifo = Append(@, l.frame_count_in + 1),
                   !.frame_count_in = @ + 1]
    ELSE IF outcome = "eof"
    THEN [l EXCEPT !.status_in = AVERROR_EOF]
    ELSE l

\* ff_inlink_consume_frame / ff_inlink_consume_samples taking the first queued
\* frame off the link
InlinkConsume(l) ==
    [l EXCEPT !.fifo = Tail(@), !.frame_count_out = @ + 1]

\* return_or_keep_frame without the store to peeked_frame under PEEK
ReturnOrKeepFrameForgets(b, out, in, flags, refok) ==
    IF HasFlag(flags, AV_BUFFERSINK_FLAG_PEEK)
    THEN [buf |-> b,
          ret |-> IF out /\ ~refok THEN AVERROR_ENOMEM ELSE 0,
          frame |-> IF out /\ refok THEN in ELSE NULL]
    ELSE [buf |-> [b EXCEPT !.peeked_frame = NULL], ret |-> 0, frame |-> in]

\* return_or_keep_frame: under PEEK the sink keeps `in` and the caller gets a
\* new reference to it (refok: av_frame_ref succeeded) when it passed a frame;
\* otherwise the frame is moved to the caller and the sink holds nothing
return_or_keep_frame(b, out, in, flags, refok) ==
    IF HasFlag(flags, AV_BUFFERSINK_FLAG_PEEK)
    THEN [buf |-> [b EXCEPT !.peeked_frame = in],
          ret |-> IF out /\ ~refok THEN AVERROR_ENOMEM ELSE 0,
          frame |-> IF out /\ refok THEN in ELSE NULL]
    ELSE [buf |-> [b EXCEPT !.peeked_frame = NULL], ret |-> 0, frame |-> in]

\* the result of get_frame_internal that leaves the sink and the link `l`
SinkReturn(b, l, ret) == [buf |-> b, inlink |-> l, ret |-> ret, frame |-> NULL]

\* the result of get_frame_internal that goes through return_or_keep_frame
SinkDeliver(b, l, out, in, flags, refok) ==
    LET r == return_or_keep_frame(b, out, in, flags, refok)
    IN  [buf |-> r.buf, inlink |-> l, ret |-> r.ret, frame |-> r.frame]

\* get_frame_internal: a held frame is served first; then the first queued
\* frame (consumeok: the consume call did not fail); then the end status of
\* the link; then EAGAIN under NO_REQUEST; and else the graph is run until
\* the link has a frame or a status, or the run fails
get_frame_internal(b, l, out, flags, samples, refok, consumeok, graph) ==
    IF b.peeked_frame # NULL
    THEN SinkDeliver(b, l, out, b.peeked_frame, flags, refok)
    ELSE IF l.fifo # <<>>
    THEN IF samples > 0 /\ ~consumeok
         THEN SinkReturn(b, l, AVERROR_ENOMEM)
         ELSE SinkDeliver(b, InlinkConsume(l), out, Head(l.fifo), flags, refok)
    ELSE IF l.status_in # 0
    THEN SinkReturn(b, [l EXCEPT !.status_out = l.status_in], l.status_in)
    ELSE IF HasFlag(flags, AV_BUFFERSINK_FLAG_NO_REQUEST)
    THEN SinkReturn(b, l, AVERROR_EAGAIN)
    ELSE LET ran == GraphRunOnce(l, graph)
         IN  IF graph = "frame"
             THEN IF samples > 0 /\ ~consumeok
                  THEN SinkReturn(b, ran, AVERROR_ENOMEM)
                  ELSE SinkDeliver(b, InlinkConsume(ran), out, Head(ran.fifo),
                                   flags, refok)
             ELSE IF graph = "eof"
             THEN SinkReturn(b, [ran EXCEPT !.status_out = ran.status_in],
                             ran.status_in)
             ELSE SinkReturn(b, ran, AVERROR_EINVAL)

\* one call of the sink's API; last records the return value, the frame the
\* caller received (NULL when none) and the flags.  Without PEEK the caller
\* must pass a frame (av_assert1(out)).
GetFrame(op, out, flags, samples) ==
    /\ out \/ HasFlag(flags, AV_BUFFERSINK_FLAG_PEEK)
    /\ \E refok \in BOOLEAN : \E consumeok \in BOOLEAN :
       \E graph \in GraphOutcomes(inlink) :
          LET r == get_frame_internal(buf, inlink, out, flags, samples,
                                      refok, consumeok, graph)
          IN  /\ buf' = r.buf
              /\ inlink' = r.inlink
              /\ last' = Call(op, r.ret, r.frame, flags)
    /\ UNCHANGED <<kind, heap, cfg, avci>>

\* samples is the min_samples of the input link for the two frame calls
av_buffersink_get_frame ==
    \E min_samples \in 0..1 :
        GetFrame("av_buffersink_get_frame", TRUE, 0, min_samples)

av_buffersink_get_frame_flags ==
    \E flags \in 0..3 : \E out \in BOOLEAN : \E min_samples \in 0..1 :
        GetFrame("av_buffersink_get_frame_flags", out, flags, min_samples)

av_buffersink_get_samples == GetFrame("av_buffersink_get_samples", TRUE, 0, 1)

\* the graph running between two calls of the sink (the application feeding
\* the source, or another sink being read)
ff_filter_graph_run_once ==
    /\ \E graph \in GraphOutcomes(inlink) \ {"error"} :
          inlink' = GraphRunOnce(inlink, graph)
    /\ last' = Call("ff_filter_graph_run_once", 0, NULL, NULL)
    /\ UNCHANGED <<kind, heap, cfg, buf, avci>>

InitSink ==
    /\ kind = SCALAR
    /\ heap = [f \in SetIds |-> FreeRec]
    /\ cfg = [s \in Slots |-> NULL]
    /\ last = Call("init", 0, NULL, NULL)
    /\ SinkInit
    /\ EncoderInit("encode", FALSE)

NextSink ==
    \/ av_buffersink_get_frame
    \/ av_buffersink_get_frame_flags
    \/ av_buffersink_get_samples
    \/ ff_filter_graph_run_once

SpecSink == InitSink /\ [][NextSink]_vars

SinkOps == {"av_buffersink_get_frame", "av_buffersink_get_frame_flags",
            "av_buffersink_get_samples"}

\* C39: buffer sink peek protocol.  A get with the PEEK flag that returns a
\* frame leaves that frame held by the sink; while a frame is held, every get
\* serves that same frame and takes nothing from the input link: a get with
\* PEEK leaves it held, a get without PEEK hands it to the caller and clears
\* the held frame.  The sink holds at most one frame: the held frame is the
\* last one that left the link, and no get without PEEK leaves a frame held.
C39_PeekProtocol ==
    [][last'.op \in SinkOps =>
         LET peek == HasFlag(last'.b, AV_BUFFERSINK_FLAG_PEEK)
         IN  /\ (peek /\ last'.a # NULL) => buf'.peeked_frame = last'.a
             /\ buf.peeked_frame # NULL =>
                  /\ inlink' = inlink
                  /\ last'.a \in {NULL, buf.peeked_frame}
                  /\ IF peek
                     THEN buf'.peeked_frame = buf.peeked_frame
                     ELSE /\ last'.ret = 0
                          /\ last'.a = buf.peeked_frame
             /\ ~peek => buf'.peeked_frame = NULL
             /\ buf'.peeked_frame # NULL =>
                  buf'.peeked_frame = inlink'.frame_count_out]_vars

\* a get with PEEK returned the held frame while the next frame waits on the
\* link
C39_Witness ==
    /\ last.op \in SinkOps
    /\ HasFlag(last.b, AV_BUFFERSINK_FLAG_PEEK)
    /\ last.ret = 0
    /\ last.a # NULL
    /\ buf.peeked_frame = last.a
    /\ inlink.fifo # <<>>
    /\ Head(inlink.fifo) = last.a + 1

\* ----------------------------------------------------------------- encoder
FF_CODEC_CB_TYPE_ENCODE == "encode"
FF_CODEC_CB_TYPE_RECEIVE_PACKET == "receive_packet"

\* a result of the encoder functions: the encoder after the call, the return
\* value, and whether the packet passed in holds data afterwards
EncRet(c, ret, pkt) == [avci |-> c, ret |-> ret, pkt |-> pkt]

\* ff_encode_get_frame: hands the buffered frame to the codec
ff_encode_get_frame(c) ==
    IF c.draining = 1
    THEN [avci |-> c, ret |-> AVERROR_EOF, frame |-> NULL]
    ELSE IF c.buffer_frame = NULL
    THEN [avci |-> c, ret |-> AVERROR_EAGAIN, frame |-> NULL]
    ELSE [avci |-> [c EXCEPT !.buffer_frame = NULL], ret |-> 0,
          frame |-> c.buffer_frame]

\* what one call of the codec's encode callback can do: ret <= 0, and
\* got_packet set or not (a packet that cannot be made refcounted is an error
\* with got_packet set)
EncodeOutcomes == [ret : {0, AVERROR_ENOMEM}, got_packet : BOOLEAN]

\* what one call of the codec's receive_packet callback can do: it may take
\* the buffered frame through ff_encode_get_frame, and returns a packet,
\* EAGAIN, an error, or EOF once ff_encode_get_frame told it of the draining
ReceiveOutcomes(c) ==
    [ret : {0, AVERROR_EAGAIN, AVERROR_ENOMEM}
           \cup (IF c.draining = 1 THEN {AVERROR_EOF} ELSE {}),
     take : BOOLEAN]

\* encode_simple_internal: in_frame is empty between calls, because the
\* callback always releases the frame it was given
encode_simple_internal(c, cb) ==
    IF c.draining_done = 1
    THEN EncRet(c, AVERROR_EOF, FALSE)
    ELSE LET g == IF c.draining = 0
                  THEN ff_encode_get_frame(c)
                  ELSE [avci |-> c, ret |-> 0, frame |-> NULL]
         IN  IF g.ret < 0 /\ g.ret # AVERROR_EOF
             THEN EncRet(g.avci, g.ret, FALSE)
             ELSE IF g.frame = NULL /\ ~c.cap_delay
             THEN EncRet(g.avci, AVERROR_EOF, FALSE)
             ELSE EncRet([g.avci EXCEPT !.draining_done =
                             IF c.draining = 1 /\ ~cb.got_packet THEN 1 ELSE @],
                         cb.ret, cb.ret = 0 /\ cb.got_packet)

\* encode_simple_receive_packet: rounds of encode_simple_internal until the
\* packet has data or a round fails (a round that gave no packet is followed
\* by one that returns EAGAIN or EOF without calling the codec)
RECURSIVE encode_simple_receive_packet(_, _, _)
encode_simple_receive_packet(c, pkt, cb) ==
    IF pkt
    THEN EncRet(c, 0, TRUE)
    ELSE LET r == encode_simple_internal(c, cb)
         IN  IF r.ret < 0
             THEN r
             ELSE encode_simple_receive_packet(r.avci, r.pkt, cb)

\* encode_receive_packet_internal (sizeok: av_image_check_size2 accepted the
\* picture size); cb is the outcome of the codec callback of the codec's type
encode_receive_packet_internal(c, cb, sizeok) ==
    IF c.draining_done = 1
    THEN EncRet(c, AVERROR_EOF, FALSE)
    ELSE IF ~sizeok
    THEN EncRet(c, AVERROR_EINVAL, FALSE)
    ELSE LET r == IF c.cb_type = FF_CODEC_CB_TYPE_RECEIVE_PACKET
                  THEN EncRet(IF cb.take THEN ff_encode_get_frame(c).avci ELSE c,
                              cb.ret, cb.ret = 0)
                  ELSE encode_simple_receive_packet(c, FALSE, cb)
         IN  IF r.ret = AVERROR_EOF
             THEN EncRet([r.avci EXCEPT !.draining_done = 1], r.ret, r.pkt)
             ELSE r

\* encode_send_frame_internal: "ok" stores a reference to the frame in
\* buffer_frame; "fail" fails before the frame is stored (frame size check,
\* padding, av_frame_ref); "fail_stored" fails after it (ICC profile)
SendOutcomes == {"ok", "fail", "fail_stored"}

encode_send_frame_internal(c, src, outcome) ==
    IF outcome = "fail"
    THEN EncRet(c, AVERROR_EINVAL, FALSE)
    ELSE EncRet([c EXCEPT !.buffer_frame = src],
                IF outcome = "ok" THEN 0 ELSE AVERROR_ENOMEM, FALSE)

\* avcodec_send_frame from the test of frame on: a NULL frame starts the
\* draining, another frame is stored; then one packet is fetched into
\* buffer_pkt when it is empty
SendAccepted(c, frame, outcome, cb, sizeok) ==
    LET s == IF frame = NULL
             THEN EncRet([c EXCEPT !.draining = 1], 0, FALSE)
             ELSE encode_send_frame_internal(c, frame, outcome)
    IN  IF s.ret < 0
        THEN s
        ELSE LET r == IF s.avci.buffer_pkt = NULL
                      THEN encode_receive_packet_internal(s.avci, cb, sizeok)
                      ELSE EncRet(s.avci, 0, TRUE)
                 d == [r.avci EXCEPT !.buffer_pkt = IF r.pkt THEN 1 ELSE NULL]
             IN  IF r.ret < 0 /\ r.ret # AVERROR_EAGAIN /\ r.ret # AVERROR_EOF
                 THEN EncRet(d, r.ret, FALSE)
                 ELSE EncRet([d EXCEPT !.frame_number = @ + 1], 0, FALSE)

\* avcodec_send_frame without the test of draining
AvcodecSendFrameNoDrainingTest(c, frame, outcome, cb, sizeok) ==
    IF c.buffer_frame # NULL
    THEN EncRet(c, AVERROR_EAGAIN, FALSE)
    ELSE SendAccepted(c, frame, outcome, cb, sizeok)

\* avcodec_send_frame on an open encoder
avcodec_send_frame(c, frame, outcome, cb, sizeok) ==
    IF c.draining = 1
    THEN EncRet(c, AVERROR_EOF, FALSE)
    ELSE IF c.buffer_frame # NULL
    THEN EncRet(c, AVERROR_EAGAIN, FALSE)
    ELSE SendAccepted(c, frame, outcome, cb, sizeok)

\* avcodec_receive_packet on an open encoder: the buffered packet first
avcodec_receive_packet(c, cb, sizeok) ==
    IF c.buffer_pkt # NULL
    THEN EncRet([c EXCEPT !.buffer_pkt = NULL], 0, TRUE)
    ELSE encode_receive_packet_internal(c, cb, sizeok)

\* the callback outcomes of the codec of encoder c
CodecOutcomes(c) ==
    IF c.cb_type = FF_CODEC_CB_TYPE_RECEIVE_PACKET
    THEN ReceiveOutcomes(c)
    ELSE EncodeOutcomes

\* a call of avcodec_send_frame; last records the return value and the frame
SendFrame ==
    /\ \E frame \in {NULL} \cup 1..MaxFrames : \E outcome \in SendOutcomes :
       \E cb \in CodecOutcomes(avci) : \E sizeok \in BOOLEAN :
          LET r == avcodec_send_frame(avci, frame, outcome, cb, sizeok)
          IN  /\ r.avci.frame_number <= MaxFrames
              /\ avci' = r.avci
              /\ last' = Call("avcodec_send_frame", r.ret, frame, NULL)
    /\ UNCHANGED <<kind, heap, cfg, buf, inlink>>

\* a call of avcodec_receive_packet; last records the return value and
\* whether the caller's packet holds data (1) or not (NULL)
ReceivePacket ==
    /\ \E cb \in CodecOutcomes(avci) : \E sizeok \in BOOLEAN :
          LET r == avcodec_receive_packet(avci, cb, sizeok)
          IN  /\ avci' = r.avci
              /\ last' = Call("avcodec_receive_packet", r.ret,
                              IF r.pkt THEN 1 ELSE NULL, NULL)
    /\ UNCHANGED <<kind, heap, cfg, buf, inlink>>

InitEncode ==
    /\ kind = SCALAR
    /\ heap = [f \in SetIds |-> FreeRec]
    /\ cfg = [s \in Slots |-> NULL]
    /\ last = Call("init", 0, NULL, NULL)
    /\ SinkInit
    /\ \E cb_type \in {FF_CODEC_CB_TYPE_ENCODE, FF_CODEC_CB_TYPE_RECEIVE_PACKET} :
       \E delay \in BOOLEAN : EncoderInit(cb_type, delay)

NextEncode ==
    \/ SendFrame
    \/ ReceivePacket

SpecEncode == InitEncode /\ [][NextEncode]_vars

EncoderOps == {"avcodec_send_frame", "avcodec_receive_packet"}

\* C40: encoder end-of-stream is sticky.  A send of a NULL frame that returned
\* 0 has set draining; once draining is set every avcodec_send_frame returns
\* EOF and leaves the encoder as it was (no frame stored); once draining_done
\* is set every avcodec_receive_packet called with no packet buffered returns
\* EOF and delivers no packet; no send or receive call clears either flag.
C40_EndOfStreamSticky ==
    [][last'.op \in EncoderOps =>
         /\ (last'.op = "avcodec_send_frame" /\ last'.a = NULL /\ last'.ret = 0)
               => avci'.draining = 1
         /\ (last'.op = "avcodec_send_frame" /\ avci.draining = 1)
               => last'.ret = AVERROR_EOF /\ avci' = avci
         /\ (last'.op = "avcodec_receive_packet" /\ avci.draining_done = 1
             /\ avci.buffer_pkt = NULL)
               => last'.ret = AVERROR_EOF /\ last'.a = NULL
         /\ avci'.draining >= avci.draining
         /\ avci'.draining_done >= avci.draining_done]_vars

\* a frame sent after the end of the stream was drained is refused with EOF
C40_Witness ==
    /\ last.op = "avcodec_send_frame"
    /\ last.a # NULL
    /\ last.ret = AVERROR_EOF
    /\ avci.draining = 1
    /\ avci.draining_done = 1
    /\ avci.buffer_frame = NULL
    /\ avci.buffer_pkt = NULL

====
